---------------------------- MODULE Spec2Model ----------------------------
(***************************************************************************)
(* mrz-fast: TD3 machine-readable-zone decoder, encoder and error          *)
(* correction search.                                                      *)
(*                                                                         *)
(* A JavaScript string is modelled as the sequence of its UTF-16 code      *)
(* units (naturals); T(<<"P", "<">>) writes such a string from printable   *)
(* ASCII characters.  The JavaScript value null is Null, NaN is NaN and an *)
(* absent optional property is Undefined.                                  *)
(***************************************************************************)
EXTENDS Integers, Sequences, FiniteSets, TLC

\* What lives as long as the process: the module-level objects of
\* checkDigit.ts, errorCorrection.ts and fieldParsers.ts, and the calls made
\* so far.
VARIABLES
  charValues,      \* CHAR_VALUES, the Uint8Array(256)
  ambiguousChars,  \* AMBIGUOUS_CHARS, the array of [from, toList]
  lastIndex,       \* lastIndex of the global regexes TRAILING_ANGLES, ALL_ANGLES
  calls,           \* how many calls have returned
  earlier          \* a call that returned before: its arguments and result

----------------------------------------------------------------------------
(* Strings                                                                  *)

Ascii ==
  << " ", "!", "dquote", "#", "$", "%", "&", "'", "(", ")", "*", "+", ",", "-", ".", "/",
     "0", "1", "2", "3", "4", "5", "6", "7", "8", "9", ":", ";", "<", "=", ">", "?",
     "@", "A", "B", "C", "D", "E", "F", "G", "H", "I", "J", "K", "L", "M", "N", "O",
     "P", "Q", "R", "S", "T", "U", "V", "W", "X", "Y", "Z", "[", "bslash", "]", "^", "_",
     "btick", "a", "b", "c", "d", "e", "f", "g", "h", "i", "j", "k", "l", "m", "n", "o",
     "p", "q", "r", "s", "t", "u", "v", "w", "x", "y", "z", "{", "|", "}", "~" >>

\* charCodeAt of a one-character printable ASCII string (the double quote,
\* backslash and backtick are not written in this notation)
Ord(c) == 31 + (CHOOSE i \in 1..Len(Ascii) : Ascii[i] = c)

\* the string whose characters are listed in t
T(t) == [i \in 1..Len(t) |-> Ord(t[i])]

Null == << 0 - 1 >>
Undefined == << 0 - 2 >>
NaN == 0 - 1

IsDigit(c) == c >= 48 /\ c <= 57
IsUpper(c) == c >= 65 /\ c <= 90
IsLower(c) == c >= 97 /\ c <= 122

\* s.repeat: n copies of the character c
Repeat(c, n) == [i \in 1..n |-> c]

\* s.substring(a, b) with 0 <= a, 0 <= b (b clamped to the length)
Substring(s, a, b) ==
  LET e == IF b > Len(s) THEN Len(s) ELSE b
  IN  IF a >= e THEN << >> ELSE SubSeq(s, a + 1, e)

\* number of '<' characters at the end of s
TrailingAngles(s) ==
  IF \A i \in 1..Len(s) : s[i] = 60 THEN Len(s)
  ELSE Len(s) - (CHOOSE i \in 1..Len(s) :
                   s[i] # 60 /\ \A j \in (i + 1)..Len(s) : s[j] = 60)

\* number of '<' characters at the start of s
LeadingAngles(s) ==
  IF \A i \in 1..Len(s) : s[i] = 60 THEN Len(s)
  ELSE (CHOOSE i \in 1..Len(s) :
          s[i] # 60 /\ \A j \in 1..(i - 1) : s[j] = 60) - 1

\* s.replace(/<+$/, '')
StripTrailing(s) == SubSeq(s, 1, Len(s) - TrailingAngles(s))

\* s.replace(/^<+/, '')
StripLeading(s) == SubSeq(s, LeadingAngles(s) + 1, Len(s))

\* s.replace(/</g, '')
RECURSIVE RemoveAngles(_)
RemoveAngles(s) ==
  IF s = << >> THEN << >>
  ELSE IF Head(s) = 60 THEN RemoveAngles(Tail(s))
       ELSE << Head(s) >> \o RemoveAngles(Tail(s))

\* s.replace(/</g, ' ')
AnglesToSpaces(s) == [i \in 1..Len(s) |-> IF s[i] = 60 THEN 32 ELSE s[i]]

\* s.replace(/ /g, '<')
SpacesToAngles(s) == [i \in 1..Len(s) |-> IF s[i] = 32 THEN 60 ELSE s[i]]

\* s.toUpperCase() on the characters of the model's alphabet
ToUpperCase(s) == [i \in 1..Len(s) |-> IF IsLower(s[i]) THEN s[i] - 32 ELSE s[i]]

\* s.padEnd(n, '<')
PadEnd(s, n) == IF Len(s) >= n THEN s ELSE s \o Repeat(60, n - Len(s))

\* s.padStart(n, '0')
PadStart(s, n) == IF Len(s) >= n THEN s ELSE Repeat(48, n - Len(s)) \o s

\* s.indexOf('<<'), 0-based, -1 when absent
IndexOfSeparator(s) ==
  IF \E i \in 1..(Len(s) - 1) : s[i] = 60 /\ s[i + 1] = 60
  THEN (CHOOSE i \in 1..(Len(s) - 1) :
          /\ s[i] = 60 /\ s[i + 1] = 60
          /\ \A j \in 1..(i - 1) : ~(s[j] = 60 /\ s[j + 1] = 60)) - 1
  ELSE 0 - 1

\* a % b of JavaScript: the sign of the dividend
JsRem(a, b) == IF a >= 0 THEN a % b ELSE 0 - ((0 - a) % b)

\* String(n) for a non-negative integer n
RECURSIVE DecimalDigits(_)
DecimalDigits(n) ==
  IF n < 10 THEN << 48 + n >>
  ELSE DecimalDigits(n \div 10) \o << 48 + (n % 10) >>

\* String(n) for an integer n
NumberToString(n) == IF n < 0 THEN << 45 >> \o DecimalDigits(0 - n) ELSE DecimalDigits(n)

\* parseInt(s, 10) of a string that holds no whitespace or sign: the leading
\* run of digits, NaN when there is none
RECURSIVE ParseDigits(_, _, _)
ParseDigits(s, i, acc) ==
  IF i > Len(s) \/ ~IsDigit(s[i]) THEN acc
  ELSE ParseDigits(s, i + 1, acc * 10 + (s[i] - 48))

ParseInt(s) == IF s = << >> \/ ~IsDigit(s[1]) THEN NaN ELSE ParseDigits(s, 1, 0)

----------------------------------------------------------------------------
(* Check-digit engine (checkDigit.ts)                                       *)

\* the table as the initializer that runs at module load leaves it
InitialCharValues ==
  [code \in 0..255 |->
     IF IsDigit(code) THEN code - 48
     ELSE IF IsUpper(code) THEN code - 55
     ELSE 0]

\* CHAR_VALUES read before the table is filled: a table filled on first use,
\* after the first call has read its zeros
CHAR_VALUES_FilledAfterFirstCall(code) ==
  IF code > 255 THEN NaN
  ELSE IF calls = 0 THEN 0
  ELSE charValues[code]

\* CHAR_VALUES[code]: a Uint8Array(256) filled at module load; an index of 256
\* or more reads undefined, which is NaN in the arithmetic of the callers
CHAR_VALUES(code) ==
  IF code > 255 THEN NaN
  ELSE charValues[code]

weights == << 7, 3, 1 >>

\* sum of CHAR_VALUES[s[i]] * weights[j % 3] for i in from..to (1-based,
\* inclusive), j counting from j0 (0-based); the characters are below 256
RECURSIVE WeightedSum(_, _, _, _)
WeightedSum(s, from, to, j0) ==
  IF from > to THEN 0
  ELSE CHAR_VALUES(s[from]) * weights[(j0 % 3) + 1]
         + WeightedSum(s, from + 1, to, j0 + 1)

\* the value of sum % 10 after the loop over s[from..to]: NaN as soon as one
\* character has no table entry
SumMod10(s, from, to, j0) ==
  IF \E i \in from..to : CHAR_VALUES(s[i]) = NaN THEN NaN
  ELSE WeightedSum(s, from, to, j0) % 10

calculateCheckDigit(input) == SumMod10(input, 1, Len(input), 0)

validateCheckDigit(input, checkDigit) ==
  LET calculated == calculateCheckDigit(input)
      provided == IF checkDigit = << 60 >> THEN 0 ELSE ParseInt(checkDigit)
  IN  IF provided = NaN THEN FALSE
      ELSE calculated # NaN /\ calculated = provided

\* the provided digit without the case of the filler: charCode - 48
ProvidedDigitNoFiller(line2, i) == line2[i] - 48

\* charCode === 60 ? 0 : charCode - 48
ProvidedDigit(line2, i) == IF line2[i] = 60 THEN 0 ELSE line2[i] - 48

\* one block of fastValidateTD3CheckDigits: the check character at 0-based
\* position chk is '<' or a digit and equals the sum over the 0-based range
\* [from, to)
FastBlockOk(line2, from, to, chk) ==
  LET provided == ProvidedDigit(line2, chk + 1)
      sum == SumMod10(line2, from + 1, to, 0)
  IN  /\ ~(provided < 0 \/ provided > 9)
      /\ sum # NaN /\ sum = provided

\* the composite block with the weight index restarted at every range
FastCompositeOkWeightsRestart(line2) ==
  LET provided == ProvidedDigit(line2, 44)
      bad == \E i \in (1..10) \cup (14..20) \cup (22..43) : CHAR_VALUES(line2[i]) = NaN
      sum == (WeightedSum(line2, 1, 10, 0) + WeightedSum(line2, 14, 20, 0)
                + WeightedSum(line2, 22, 43, 0)) % 10
  IN  /\ ~(provided < 0 \/ provided > 9)
      /\ ~bad /\ sum = provided

\* the composite block: three ranges, the weight index j running on
FastCompositeOk(line2) ==
  LET provided == ProvidedDigit(line2, 44)
      bad == \E i \in (1..10) \cup (14..20) \cup (22..43) : CHAR_VALUES(line2[i]) = NaN
      sum == (WeightedSum(line2, 1, 10, 0) + WeightedSum(line2, 14, 20, 10)
                + WeightedSum(line2, 22, 43, 17)) % 10
  IN  /\ ~(provided < 0 \/ provided > 9)
      /\ ~bad /\ sum = provided

fastValidateTD3CheckDigits(line2) ==
  IF Len(line2) # 44 THEN FALSE
  ELSE /\ FastBlockOk(line2, 0, 9, 9)
       /\ FastBlockOk(line2, 13, 19, 19)
       /\ FastBlockOk(line2, 21, 27, 27)
       /\ FastBlockOk(line2, 28, 42, 42)
       /\ FastCompositeOk(line2)

----------------------------------------------------------------------------
(* Field parsers (fieldParsers.ts).  A parser result is [value, error]; an  *)
(* error message is a sequence of its parts, << >> when there is none.      *)

NoError == << >>

\* /^[A-Z<]+$/
ALPHA_ONLY(s) == Len(s) > 0 /\ \A i \in 1..Len(s) : IsUpper(s[i]) \/ s[i] = 60
\* /^[0-9A-Z<]+$/
ALPHANUM_ONLY(s) ==
  Len(s) > 0 /\ \A i \in 1..Len(s) : IsDigit(s[i]) \/ IsUpper(s[i]) \/ s[i] = 60
\* /^[A-Z<]{3}$/
STATE_CODE_PATTERN(s) == Len(s) = 3 /\ \A i \in 1..3 : IsUpper(s[i]) \/ s[i] = 60
\* /^[0-9<]{6}$/
DATE_PATTERN(s) == Len(s) = 6 /\ \A i \in 1..6 : IsDigit(s[i]) \/ s[i] = 60

cleanText(text) == AnglesToSpaces(StripTrailing(text))

validCodes == { T(<<"P">>), T(<<"P", "A">>), T(<<"P", "O">>), T(<<"P", "T">>) }

parseDocumentCode(code) ==
  LET cleaned == RemoveAngles(code)
  IN  IF Len(cleaned) = 0 \/ Len(cleaned) > 2 \/ ~ALPHA_ONLY(cleaned)
      THEN [value |-> code, error |-> << "invalid document code: ", code >>]
      ELSE IF cleaned \notin validCodes
      THEN [value |-> cleaned, error |-> << "unknown document code: ", cleaned >>]
      ELSE [value |-> cleaned, error |-> NoError]

parseState(state) ==
  IF ~STATE_CODE_PATTERN(state)
  THEN [value |-> state, error |-> << "invalid state code: ", state >>]
  ELSE LET cleaned == RemoveAngles(state)
       IN  IF Len(cleaned) = 0
           THEN [value |-> << >>, error |-> << "state code is empty" >>]
           ELSE IF Len(cleaned) < 1 \/ Len(cleaned) > 3
           THEN [value |-> cleaned, error |-> << "invalid state code: ", state >>]
           ELSE [value |-> cleaned, error |-> NoError]

\* parseNames with the first name taken from one character too early
parseNamesSeparatorOffByOne(namesField) ==
  LET separatorIndex == IndexOfSeparator(namesField)
  IN  IF separatorIndex = 0 - 1
      THEN LET lastNameRaw == StripTrailing(namesField)
           IN  [lastName  |-> [value |-> cleanText(lastNameRaw), start |-> 0,
                               end |-> Len(lastNameRaw)],
                firstName |-> [value |-> << >>, start |-> Len(namesField),
                               end |-> Len(namesField)]]
      ELSE LET lastNameRaw == Substring(namesField, 0, separatorIndex)
               firstNameStart == separatorIndex + 1
               firstNameRaw ==
                 StripTrailing(Substring(namesField, firstNameStart, Len(namesField)))
           IN  [lastName  |-> [value |-> cleanText(lastNameRaw), start |-> 0,
                               end |-> separatorIndex],
                firstName |-> [value |-> cleanText(firstNameRaw),
                               start |-> firstNameStart,
                               end |-> firstNameStart + Len(firstNameRaw)]]

parseNames(namesField) ==
  LET separatorIndex == IndexOfSeparator(namesField)
  IN  IF separatorIndex = 0 - 1
      THEN LET lastNameRaw == StripTrailing(namesField)
           IN  [lastName  |-> [value |-> cleanText(lastNameRaw), start |-> 0,
                               end |-> Len(lastNameRaw)],
                firstName |-> [value |-> << >>, start |-> Len(namesField),
                               end |-> Len(namesField)]]
      ELSE LET lastNameRaw == Substring(namesField, 0, separatorIndex)
               firstNameStart == separatorIndex + 2
               firstNameRaw ==
                 StripTrailing(Substring(namesField, firstNameStart, Len(namesField)))
           IN  [lastName  |-> [value |-> cleanText(lastNameRaw), start |-> 0,
                               end |-> separatorIndex],
                firstName |-> [value |-> cleanText(firstNameRaw),
                               start |-> firstNameStart,
                               end |-> firstNameStart + Len(firstNameRaw)]]

parseDocumentNumber(docNum) ==
  IF ~ALPHANUM_ONLY(docNum)
  THEN [value |-> docNum, error |-> << "invalid document number: ", docNum >>]
  ELSE LET cleaned == StripTrailing(docNum)
       IN  IF Len(cleaned) = 0
           THEN [value |-> << >>, error |-> << "document number is empty" >>]
           ELSE [value |-> cleaned, error |-> NoError]

\* month !== '<<' and (monthNum < lo || monthNum > hi); a comparison with NaN
\* is false
PartOutOfRange(part, lo, hi) ==
  /\ part # << 60, 60 >>
  /\ LET num == ParseInt(part) IN num # NaN /\ (num < lo \/ num > hi)

parseDate(date) ==
  IF ~DATE_PATTERN(date)
  THEN [value |-> date, error |-> << "invalid date format: ", date >>]
  ELSE LET month == Substring(date, 2, 4)
           day == Substring(date, 4, 6)
       IN  IF PartOutOfRange(month, 1, 12)
           THEN [value |-> date, error |-> << "invalid date month: ", month >>]
           ELSE IF PartOutOfRange(day, 1, 31)
           THEN [value |-> date, error |-> << "invalid date day: ", day >>]
           ELSE [value |-> date, error |-> NoError]

MALE == T(<<"m", "a", "l", "e">>)
FEMALE == T(<<"f", "e", "m", "a", "l", "e">>)
UNSPECIFIED == T(<<"u", "n", "s", "p", "e", "c", "i", "f", "i", "e", "d">>)

parseSex(sex) ==
  IF sex = << 77 >> THEN [value |-> MALE, error |-> NoError]
  ELSE IF sex = << 70 >> THEN [value |-> FEMALE, error |-> NoError]
  ELSE IF sex = << 60 >> THEN [value |-> UNSPECIFIED, error |-> NoError]
  ELSE [value |-> sex, error |-> << "invalid sex: ", sex, ". Must be M, F, or <" >>]

parsePersonalNumber(personalNum) == [value |-> StripTrailing(personalNum)]

----------------------------------------------------------------------------
(* Field decoder (td3.ts)                                                   *)

\* one entry of ParseResult.details
Detail(label, field, value, valid, line, rstart, rend, start, end, error) ==
  [label |-> label, field |-> field, value |-> value, valid |-> valid,
   ranges |-> << [line |-> line, start |-> rstart, end |-> rend] >>,
   line |-> line, start |-> start, end |-> end, error |-> error]

\* the detail record of a check digit with the error message left out
CheckDigitDetailNoMessage(label, field, raw, digit, start) ==
  LET ok == validateCheckDigit(raw, digit)
  IN  Detail(label, field, digit, ok, 1, start, start + 1, start, start + 1, NoError)

\* the detail record of a check digit and of the field it protects
CheckDigitDetail(label, field, raw, digit, start) ==
  LET ok == validateCheckDigit(raw, digit)
  IN  Detail(label, field, digit, ok, 1, start, start + 1, start, start + 1,
             IF ok THEN NoError
             ELSE << "invalid check digit: ", digit, ". Must be ",
                     calculateCheckDigit(raw) >>)

\* ParseResult.correctionMetrics when the property is absent
NoMetrics == [undefined |-> TRUE]

\* valid ? value : null
ValueOrNull(d) == IF d.valid THEN d.value ELSE Null

\* new Error(`TD3 line ${n} must be 44 characters, got ${length}`)
LengthError(n, length) ==
  [threw |-> TRUE, line |-> n, got |-> length,
   message |-> << "TD3 line ", n, " must be 44 characters, got ", length >>]

\* the details array of parseTD3, in the order of the pushes
TD3Details(line1, line2) ==
  LET documentCodeResult == parseDocumentCode(Substring(line1, 0, 2))
      issuingStateResult == parseState(Substring(line1, 2, 5))
      namesResult == parseNames(Substring(line1, 5, 44))
      documentNumberRaw == Substring(line2, 0, 9)
      documentNumberResult == parseDocumentNumber(documentNumberRaw)
      nationalityResult == parseState(Substring(line2, 10, 13))
      birthDateRaw == Substring(line2, 13, 19)
      birthDateResult == parseDate(birthDateRaw)
      sexResult == parseSex(Substring(line2, 20, 21))
      expirationDateRaw == Substring(line2, 21, 27)
      expirationDateResult == parseDate(expirationDateRaw)
      personalNumberRaw == Substring(line2, 28, 42)
      personalNumberResult == parsePersonalNumber(personalNumberRaw)
      compositeInput ==
        Substring(line2, 0, 10) \o Substring(line2, 13, 20) \o Substring(line2, 21, 43)
  IN  << Detail("Document code", "documentCode", documentCodeResult.value,
                documentCodeResult.error = NoError, 0, 0, 2, 0, 2,
                documentCodeResult.error),
         Detail("Issuing state", "issuingState", issuingStateResult.value,
                issuingStateResult.error = NoError, 0, 2, 5, 2, 5,
                issuingStateResult.error),
         Detail("Last name", "lastName", namesResult.lastName.value, TRUE, 0, 5, 44,
                5 + namesResult.lastName.start, 5 + namesResult.lastName.end, NoError),
         Detail("First name", "firstName", namesResult.firstName.value, TRUE, 0, 5, 44,
                5 + namesResult.firstName.start, 5 + namesResult.firstName.end,
                NoError),
         Detail("Document number", "documentNumber", documentNumberResult.value,
                documentNumberResult.error = NoError, 1, 0, 9, 0, 9,
                documentNumberResult.error),
         CheckDigitDetail("Document number check digit", "documentNumberCheckDigit",
                          documentNumberRaw, Substring(line2, 9, 10), 9),
         Detail("Nationality", "nationality", nationalityResult.value,
                nationalityResult.error = NoError, 1, 10, 13, 10, 13,
                nationalityResult.error),
         Detail("Birth date", "birthDate", birthDateResult.value,
                birthDateResult.error = NoError, 1, 13, 19, 13, 19,
                birthDateResult.error),
         CheckDigitDetail("Birth date check digit", "birthDateCheckDigit",
                          birthDateRaw, Substring(line2, 19, 20), 19),
         Detail("Sex", "sex", sexResult.value, sexResult.error = NoError,
                1, 20, 21, 20, 21, sexResult.error),
         Detail("Expiration date", "expirationDate", expirationDateResult.value,
                expirationDateResult.error = NoError, 1, 21, 27, 21, 27,
                expirationDateResult.error),
         CheckDigitDetail("Expiration date check digit", "expirationDateCheckDigit",
                          expirationDateRaw, Substring(line2, 27, 28), 27),
         Detail("Personal number", "personalNumber", personalNumberResult.value,
                TRUE, 1, 28, 42, 28, 28 + Len(personalNumberResult.value), NoError),
         CheckDigitDetail("Personal number check digit", "personalNumberCheckDigit",
                          personalNumberRaw, Substring(line2, 42, 43), 42),
         CheckDigitDetail("Composite check digit", "compositeCheckDigit",
                          compositeInput, Substring(line2, 43, 44), 43) >>

\* the fields record of parseTD3: the names and the personal number are stored
\* as parsed, every other field as valid ? value : null
TD3Fields(details) ==
  [documentCode |-> ValueOrNull(details[1]),
   issuingState |-> ValueOrNull(details[2]),
   lastName |-> details[3].value,
   firstName |-> details[4].value,
   documentNumber |-> ValueOrNull(details[5]),
   documentNumberCheckDigit |-> ValueOrNull(details[6]),
   nationality |-> ValueOrNull(details[7]),
   birthDate |-> ValueOrNull(details[8]),
   birthDateCheckDigit |-> ValueOrNull(details[9]),
   sex |-> ValueOrNull(details[10]),
   expirationDate |-> ValueOrNull(details[11]),
   expirationDateCheckDigit |-> ValueOrNull(details[12]),
   personalNumber |-> details[13].value,
   personalNumberCheckDigit |-> ValueOrNull(details[14]),
   compositeCheckDigit |-> ValueOrNull(details[15])]

\* the detail records whose failure clears allValid: every one but the two
\* names and the personal number, which are pushed with valid: true and never
\* tested
AllValidChecked == (1..15) \ {3, 4, 13}

\* allValid without the test of the sex field
TD3AllValidSkipsSex(details) == \A i \in AllValidChecked \ { 10 } : details[i].valid

\* allValid at the return statement
TD3AllValid(details) == \A i \in AllValidChecked : details[i].valid

\* parseTD3 with the two length tests in the other order
parseTD3Line2First(lines, corrected) ==
  IF Len(lines) # 2
  THEN [threw |-> TRUE, line |-> 0, got |-> Len(lines),
        message |-> << "TD3 format requires exactly 2 lines, got ", Len(lines) >>]
  ELSE IF Len(lines[2]) # 44 THEN LengthError(2, Len(lines[2]))
  ELSE IF Len(lines[1]) # 44 THEN LengthError(1, Len(lines[1]))
  ELSE LET details == TD3Details(lines[1], lines[2])
           fields == TD3Fields(details)
       IN  [threw |-> FALSE,
            format |-> "TD3",
            valid |-> TD3AllValid(details),
            corrected |-> corrected,
            fields |-> fields,
            documentNumber |->
              IF fields.documentNumber = Null \/ fields.documentNumber = << >>
              THEN Null ELSE fields.documentNumber,
            details |-> details,
            lines |-> [line1 |-> lines[1], line2 |-> lines[2]],
            correctionMetrics |-> NoMetrics]

parseTD3(lines, corrected) ==
  IF Len(lines) # 2
  THEN [threw |-> TRUE, line |-> 0, got |-> Len(lines),
        message |-> << "TD3 format requires exactly 2 lines, got ", Len(lines) >>]
  ELSE IF Len(lines[1]) # 44 THEN LengthError(1, Len(lines[1]))
  ELSE IF Len(lines[2]) # 44 THEN LengthError(2, Len(lines[2]))
  ELSE LET details == TD3Details(lines[1], lines[2])
           fields == TD3Fields(details)
       IN  [threw |-> FALSE,
            format |-> "TD3",
            valid |-> TD3AllValid(details),
            corrected |-> corrected,
            fields |-> fields,
            documentNumber |->
              IF fields.documentNumber = Null \/ fields.documentNumber = << >>
              THEN Null ELSE fields.documentNumber,
            details |-> details,
            lines |-> [line1 |-> lines[1], line2 |-> lines[2]],
            correctionMetrics |-> NoMetrics]

----------------------------------------------------------------------------
(* Field encoder (createMRZ.ts)                                             *)

padField(value, length) ==
  LET cleaned == SpacesToAngles(ToUpperCase(value))
  IN  IF Len(cleaned) >= length THEN Substring(cleaned, 0, length)
      ELSE PadEnd(cleaned, length)

formatDate(year, month, day) ==
  PadStart(NumberToString(JsRem(year, 100)), 2)
    \o PadStart(NumberToString(month), 2)
    \o PadStart(NumberToString(day), 2)

formatSex(sex) ==
  IF sex = MALE THEN << 77 >> ELSE IF sex = FEMALE THEN << 70 >> ELSE << 60 >>

formatNames(lastName, firstName, totalLength) ==
  LET formatted == SpacesToAngles(ToUpperCase(lastName)) \o << 60, 60 >>
                     \o SpacesToAngles(ToUpperCase(firstName))
  IN  IF Len(formatted) >= totalLength THEN Substring(formatted, 0, totalLength)
      ELSE PadEnd(formatted, totalLength)

\* String(calculateCheckDigit(field)): a digit, or the text NaN
CheckDigitString(field) ==
  LET d == calculateCheckDigit(field)
  IN  IF d = NaN THEN T(<<"N", "a", "N">>) ELSE NumberToString(d)

createMRZ(input) ==
  LET documentCode == padField(input.documentCode, 2)
      issuingState == padField(input.issuingState, 3)
      names == formatNames(input.lastName, input.firstName, 39)
      line1 == documentCode \o issuingState \o names
      documentNumber == padField(input.documentNumber, 9)
      documentNumberCheck == CheckDigitString(documentNumber)
      nationality == padField(input.nationality, 3)
      birthDate ==
        formatDate(input.birthDate.year, input.birthDate.month, input.birthDate.day)
      birthDateCheck == CheckDigitString(birthDate)
      sex == formatSex(input.sex)
      expirationDate ==
        formatDate(input.expirationDate.year, input.expirationDate.month,
                   input.expirationDate.day)
      expirationDateCheck == CheckDigitString(expirationDate)
      personalNumber ==
        padField(IF input.personalNumber = Undefined THEN << >>
                 ELSE input.personalNumber, 14)
      personalNumberCheck == CheckDigitString(personalNumber)
      compositeInput ==
        documentNumber \o documentNumberCheck \o birthDate \o birthDateCheck
          \o expirationDate \o expirationDateCheck \o personalNumber
          \o personalNumberCheck
      compositeCheck == CheckDigitString(compositeInput)
      line2 ==
        documentNumber \o documentNumberCheck \o nationality \o birthDate
          \o birthDateCheck \o sex \o expirationDate \o expirationDateCheck
          \o personalNumber \o personalNumberCheck \o compositeCheck
  IN  << line1, line2 >>

----------------------------------------------------------------------------
(* Correction search (errorCorrection.ts)                                   *)

\* the table with 8 listed as a second alternative of S
AMBIGUOUS_CHARS_SAlso8 ==
  << << Ord("S"), << Ord("5"), Ord("8") >> >>,
     << Ord("5"), << Ord("S") >> >>,
     << Ord("I"), << Ord("1"), Ord("l") >> >>,
     << Ord("1"), << Ord("I") >> >>,
     << Ord("O"), << Ord("0") >> >>,
     << Ord("0"), << Ord("O") >> >>,
     << Ord("B"), << Ord("8") >> >>,
     << Ord("8"), << Ord("B") >> >>,
     << Ord("l"), << Ord("1"), Ord("I") >> >>,
     << Ord("Z"), << Ord("2") >> >>,
     << Ord("7"), << Ord("2") >> >>,
     << Ord("G"), << Ord("6") >> >> >>

\* the table of [from, toList] pairs as the module defines it, in the order
\* of the source
AMBIGUOUS_CHARS ==
  << << Ord("S"), << Ord("5") >> >>,
     << Ord("5"), << Ord("S") >> >>,
     << Ord("I"), << Ord("1"), Ord("l") >> >>,
     << Ord("1"), << Ord("I") >> >>,
     << Ord("O"), << Ord("0") >> >>,
     << Ord("0"), << Ord("O") >> >>,
     << Ord("B"), << Ord("8") >> >>,
     << Ord("8"), << Ord("B") >> >>,
     << Ord("l"), << Ord("1"), Ord("I") >> >>,
     << Ord("Z"), << Ord("2") >> >>,
     << Ord("7"), << Ord("2") >> >>,
     << Ord("G"), << Ord("6") >> >> >>

TargetLength == 44
maxCombos == 2000000

\* the number of '<' the removal loop counts at the end of beforeChecksum: it
\* stops at the first other character and at toRemove
RemovedAngles(beforeChecksum, toRemove) ==
  IF TrailingAngles(beforeChecksum) < toRemove THEN TrailingAngles(beforeChecksum)
  ELSE toRemove

\* padMRZLine that leaves a line without check digits over-long
padMRZLineNoTruncation(rawLine, targetLength, isLine2) ==
  LET line == StripLeading(rawLine)
      last2 == SubSeq(line, Len(line) - 1, Len(line))
      beforeChecksum == SubSeq(line, 1, Len(line) - 2)
      charsNeeded == targetLength - 2
      toRemove == Len(beforeChecksum) - charsNeeded
      removed == RemovedAngles(beforeChecksum, toRemove)
  IN  IF Len(line) = targetLength THEN line
      ELSE IF /\ isLine2 /\ Len(line) >= 2
              /\ last2 # << 60, 60 >>
              /\ ~(\A i \in 1..2 : last2[i] = 60)
      THEN IF Len(beforeChecksum) < charsNeeded
           THEN beforeChecksum \o Repeat(60, charsNeeded - Len(beforeChecksum)) \o last2
           ELSE IF Len(beforeChecksum) > charsNeeded
           THEN (IF removed = toRemove
                 THEN SubSeq(beforeChecksum, 1, Len(beforeChecksum) - removed)
                 ELSE Substring(beforeChecksum, 0, charsNeeded)) \o last2
           ELSE line
      ELSE IF Len(line) < targetLength
           THEN line \o Repeat(60, targetLength - Len(line))
           ELSE line

\* padMRZLine that puts the missing filler in front of a short line
padMRZLinePadsFront(rawLine, targetLength, isLine2) ==
  LET line == StripLeading(rawLine)
      last2 == SubSeq(line, Len(line) - 1, Len(line))
      beforeChecksum == SubSeq(line, 1, Len(line) - 2)
      charsNeeded == targetLength - 2
      toRemove == Len(beforeChecksum) - charsNeeded
      removed == RemovedAngles(beforeChecksum, toRemove)
  IN  IF Len(line) = targetLength THEN line
      ELSE IF /\ isLine2 /\ Len(line) >= 2
              /\ last2 # << 60, 60 >>
              /\ ~(\A i \in 1..2 : last2[i] = 60)
      THEN IF Len(beforeChecksum) < charsNeeded
           THEN beforeChecksum \o Repeat(60, charsNeeded - Len(beforeChecksum)) \o last2
           ELSE IF Len(beforeChecksum) > charsNeeded
           THEN (IF removed = toRemove
                 THEN SubSeq(beforeChecksum, 1, Len(beforeChecksum) - removed)
                 ELSE Substring(beforeChecksum, 0, charsNeeded)) \o last2
           ELSE line
      ELSE IF Len(line) < targetLength
           THEN Repeat(60, targetLength - Len(line)) \o line
           ELSE Substring(line, 0, targetLength)

\* padMRZLine whose fallback cuts the whole line at targetLength
padMRZLineFlatFallback(rawLine, targetLength, isLine2) ==
  LET line == StripLeading(rawLine)
      last2 == SubSeq(line, Len(line) - 1, Len(line))
      beforeChecksum == SubSeq(line, 1, Len(line) - 2)
      charsNeeded == targetLength - 2
      toRemove == Len(beforeChecksum) - charsNeeded
      removed == RemovedAngles(beforeChecksum, toRemove)
  IN  IF Len(line) = targetLength THEN line
      ELSE IF /\ isLine2 /\ Len(line) >= 2
              /\ last2 # << 60, 60 >>
              /\ ~(\A i \in 1..2 : last2[i] = 60)
      THEN IF Len(beforeChecksum) < charsNeeded
           THEN beforeChecksum \o Repeat(60, charsNeeded - Len(beforeChecksum)) \o last2
           ELSE IF Len(beforeChecksum) > charsNeeded
           THEN (IF removed = toRemove
                 THEN SubSeq(beforeChecksum, 1, Len(beforeChecksum) - removed) \o last2
                 ELSE Substring(line, 0, targetLength))
           ELSE line
      ELSE IF Len(line) < targetLength
           THEN line \o Repeat(60, targetLength - Len(line))
           ELSE Substring(line, 0, targetLength)

padMRZLine(rawLine, targetLength, isLine2) ==
  LET line == StripLeading(rawLine)
      last2 == SubSeq(line, Len(line) - 1, Len(line))
      beforeChecksum == SubSeq(line, 1, Len(line) - 2)
      charsNeeded == targetLength - 2
      toRemove == Len(beforeChecksum) - charsNeeded
      removed == RemovedAngles(beforeChecksum, toRemove)
  IN  IF Len(line) = targetLength THEN line
      ELSE IF /\ isLine2 /\ Len(line) >= 2
              /\ last2 # << 60, 60 >>
              /\ ~(\A i \in 1..2 : last2[i] = 60)
      THEN IF Len(beforeChecksum) < charsNeeded
           THEN beforeChecksum \o Repeat(60, charsNeeded - Len(beforeChecksum)) \o last2
           ELSE IF Len(beforeChecksum) > charsNeeded
           THEN (IF removed = toRemove
                 THEN SubSeq(beforeChecksum, 1, Len(beforeChecksum) - removed)
                 ELSE Substring(beforeChecksum, 0, charsNeeded)) \o last2
           ELSE line
      ELSE IF Len(line) < targetLength
           THEN line \o Repeat(60, targetLength - Len(line))
           ELSE Substring(line, 0, targetLength)

\* the alternatives of the first table entry whose from is char; << >> when
\* the table has none
AlternativesOf(char) ==
  IF \E e \in 1..Len(ambiguousChars) : ambiguousChars[e][1] = char
  THEN ambiguousChars[CHOOSE e \in 1..Len(ambiguousChars) :
                        /\ ambiguousChars[e][1] = char
                        /\ \A f \in 1..(e - 1) : ambiguousChars[f][1] # char][2]
  ELSE << >>

RECURSIVE AmbiguousFrom(_, _)
AmbiguousFrom(str, i) ==
  IF i > Len(str) THEN << >>
  ELSE IF AlternativesOf(str[i]) # << >>
       THEN << [pos |-> i - 1, original |-> str[i],
                alternatives |-> AlternativesOf(str[i])] >>
              \o AmbiguousFrom(str, i + 1)
       ELSE AmbiguousFrom(str, i + 1)

findAmbiguousPositions(str) == AmbiguousFrom(str, 1)

\* backtrack(start, current) of getCombinations: the arrays it pushes
RECURSIVE Backtrack(_, _, _, _)
RECURSIVE BacktrackLoop(_, _, _, _, _)
Backtrack(n, k, start, current) ==
  IF Len(current) = k THEN << current >>
  ELSE BacktrackLoop(n, k, start, current, start)
BacktrackLoop(n, k, start, current, i) ==
  IF i >= n THEN << >>
  ELSE Backtrack(n, k, i + 1, Append(current, i))
         \o BacktrackLoop(n, k, start, current, i + 1)

\* getCombinations that also pushes the arrays one index short of k
getCombinationsAlsoShorter(n, k) ==
  Backtrack(n, k - 1, 0, << >>) \o Backtrack(n, k, 0, << >>)

\* getCombinations with the indices counted from 1: backtrack(1, [])
getCombinationsFromOne(n, k) == Backtrack(n, k, 1, << >>)

\* all k-combinations of the indices 0..n-1
getCombinations(n, k) == Backtrack(n, k, 0, << >>)

\* [item, ...restItems] for every restItems, in order
RECURSIVE PrependAll(_, _)
PrependAll(item, restProduct) ==
  IF restProduct = << >> THEN << >>
  ELSE << << item >> \o Head(restProduct) >> \o PrependAll(item, Tail(restProduct))

RECURSIVE cartesianProduct(_)
RECURSIVE ProductLoop(_, _)
cartesianProduct(arrays) ==
  IF Len(arrays) = 0 THEN << << >> >>
  ELSE IF Len(arrays) = 1 THEN [i \in 1..Len(arrays[1]) |-> << arrays[1][i] >>]
  ELSE ProductLoop(Head(arrays), cartesianProduct(Tail(arrays)))
ProductLoop(first, restProduct) ==
  IF first = << >> THEN << >>
  ELSE PrependAll(Head(first), restProduct) \o ProductLoop(Tail(first), restProduct)

\* the substitution forgotten: the characters as they were
SubstituteNothing(chars, positions, combo, alts, i) == chars

\* the substitution written one character to the left (posInfo.pos taken as
\* counting from 1)
RECURSIVE SubstituteOneLeft(_, _, _, _, _)
SubstituteOneLeft(chars, positions, combo, alts, i) ==
  IF i > Len(combo) THEN chars
  ELSE LET at == positions[combo[i] + 1].pos
       IN  SubstituteOneLeft(IF at = 0 THEN chars ELSE [chars EXCEPT ![at] = alts[i]],
                             positions, combo, alts, i + 1)

\* line2 with chars[positions[combo[i]].pos] = alts[i] for every i
RECURSIVE Substitute(_, _, _, _, _)
Substitute(chars, positions, combo, alts, i) ==
  IF i > Len(combo) THEN chars
  ELSE Substitute([chars EXCEPT ![positions[combo[i] + 1].pos + 1] = alts[i]],
                  positions, combo, alts, i + 1)

\* The generator object of generateCombinationsOrdered.  at is where it is
\* suspended: "start" (not yet run), "only" (at the yield of the branch for no
\* positions), "original" (at the first yield), "candidate" (at the yield of
\* the innermost loop, with the locals k, combos, the index ci of combo and
\* the index ai of alts, both 1-based) and "returned".
NewGenerator ==
  [at |-> "start", totalYielded |-> 0, k |-> 0, combos |-> << >>, ci |-> 0,
   altCombos |-> << >>, ai |-> 0]

Returned(g) == [done |-> TRUE, value |-> << >>, gen |-> [g EXCEPT !.at = "returned"]]

RECURSIVE EnterLevel(_, _, _, _, _, _)
RECURSIVE EnterCombo(_, _, _, _, _, _)
RECURSIVE EnterAlts(_, _, _, _, _)

\* the head of the loop over k
EnterLevel(g, k, line1, line2, positions, maxCombinations) ==
  IF k <= Len(positions) /\ g.totalYielded < maxCombinations
  THEN EnterCombo([g EXCEPT !.k = k, !.combos = getCombinations(Len(positions), k)],
                  1, line1, line2, positions, maxCombinations)
  ELSE Returned(g)

\* the head of the loop over combos
EnterCombo(g, ci, line1, line2, positions, maxCombinations) ==
  IF ci > Len(g.combos)
  THEN EnterLevel(g, g.k + 1, line1, line2, positions, maxCombinations)
  ELSE IF g.totalYielded >= maxCombinations THEN Returned(g)
  ELSE LET combo == g.combos[ci]
           alternatives == [i \in 1..Len(combo) |-> positions[combo[i] + 1].alternatives]
       IN  EnterAlts([g EXCEPT !.ci = ci, !.altCombos = cartesianProduct(alternatives),
                               !.ai = 1],
                     line1, line2, positions, maxCombinations)

\* the head of the loop over altCombos, at index g.ai
EnterAlts(g, line1, line2, positions, maxCombinations) ==
  IF g.ai > Len(g.altCombos)
  THEN EnterCombo(g, g.ci + 1, line1, line2, positions, maxCombinations)
  ELSE IF g.totalYielded >= maxCombinations THEN Returned(g)
  ELSE [done |-> FALSE,
        value |-> << line1,
                     Substitute(line2, positions, g.combos[g.ci], g.altCombos[g.ai], 1),
                     g.k >>,
        gen |-> [g EXCEPT !.at = "candidate"]]

\* generateCombinationsOrdered with every test of the ceiling off by one
\* (totalYielded > maxCombinations for >=, <= for <)
generateCombinationsOrderedOffByOne(g, line1, line2, positions, maxCombinations) ==
  IF g.at = "start"
  THEN [done |-> FALSE, value |-> << line1, line2, 0 >>,
        gen |-> [g EXCEPT !.at = IF Len(positions) = 0 THEN "only" ELSE "original"]]
  ELSE IF g.at = "original"
  THEN LET g1 == [g EXCEPT !.totalYielded = @ + 1]
       IN  IF g1.totalYielded > maxCombinations THEN Returned(g1)
           ELSE EnterLevel(g1, 1, line1, line2, positions, maxCombinations + 1)
  ELSE IF g.at = "candidate"
  THEN EnterAlts([g EXCEPT !.totalYielded = @ + 1, !.ai = @ + 1],
                 line1, line2, positions, maxCombinations + 1)
  ELSE Returned(g)

\* generator.next(): runs generateCombinationsOrdered from where it is
\* suspended to its next yield or to its return
generateCombinationsOrdered(g, line1, line2, positions, maxCombinations) ==
  IF g.at = "start"
  THEN [done |-> FALSE, value |-> << line1, line2, 0 >>,
        gen |-> [g EXCEPT !.at = IF Len(positions) = 0 THEN "only" ELSE "original"]]
  ELSE IF g.at = "original"
  THEN LET g1 == [g EXCEPT !.totalYielded = @ + 1]
       IN  IF g1.totalYielded >= maxCombinations THEN Returned(g1)
           ELSE EnterLevel(g1, 1, line1, line2, positions, maxCombinations)
  ELSE IF g.at = "candidate"
  THEN EnterAlts([g EXCEPT !.totalYielded = @ + 1, !.ai = @ + 1],
                 line1, line2, positions, maxCombinations)
  ELSE Returned(g)

----------------------------------------------------------------------------
(* The records and inputs the calls are made with                           *)

UtopiaLine1 ==
  T(<< "P", "<", "U", "T", "O", "E", "R", "I", "K", "S", "S", "O", "N",
       "<", "<", "A", "N", "N", "A", "<", "M", "A", "R", "I", "A", "<",
       "<", "<", "<", "<", "<", "<", "<", "<", "<", "<", "<", "<", "<",
       "<", "<", "<", "<", "<" >>)
UtopiaLine2 ==
  T(<< "L", "8", "9", "8", "9", "0", "2", "C", "3", "6", "U", "T", "O",
       "7", "4", "0", "8", "1", "2", "2", "F", "1", "2", "0", "4", "1",
       "5", "9", "Z", "E", "1", "8", "4", "2", "2", "6", "B", "<", "<",
       "<", "<", "<", "1", "0" >>)

MustermannLine1 ==
  T(<< "P", "<", "D", "<", "<", "M", "U", "S", "T", "E", "R", "M", "A",
       "N", "N", "<", "<", "E", "R", "I", "K", "A", "<", "<", "<", "<",
       "<", "<", "<", "<", "<", "<", "<", "<", "<", "<", "<", "<", "<",
       "<", "<", "<", "<", "<" >>)
MustermannLine2 ==
  T(<< "C", "0", "1", "X", "0", "0", "0", "6", "H", "1", "D", "<", "<",
       "6", "4", "0", "8", "1", "2", "5", "F", "1", "7", "1", "0", "3",
       "1", "9", "<", "<", "<", "<", "<", "<", "<", "<", "<", "<", "<",
       "<", "<", "<", "<", "0" >>)

SmithLine1 ==
  T(<< "P", "<", "U", "S", "A", "S", "M", "I", "T", "H", "<", "<", "J",
       "O", "H", "N", "<", "<", "<", "<", "<", "<", "<", "<", "<", "<",
       "<", "<", "<", "<", "<", "<", "<", "<", "<", "<", "<", "<", "<",
       "<", "<", "<", "<", "<" >>)
SmithLine2 ==
  T(<< "G", "6", "Z", "2", "2", "3", "2", "<", "<", "2", "U", "S", "A",
       "3", "4", "<", "<", "<", "<", "3", "F", "2", "3", "<", "<", "<",
       "<", "3", "K", "2", "<", "<", "<", "<", "<", "<", "<", "<", "<",
       "<", "<", "<", "6", "6" >>)

\* printed records: the ICAO specimen of the README and of the encoder tests,
\* the German specimen of the decoder tests, and a record whose second line
\* holds three ambiguous characters only (G, Z and the S of USA)
Corpus ==
  { << UtopiaLine1, UtopiaLine2 >>,
    << MustermannLine1, MustermannLine2 >>,
    << SmithLine1, SmithLine2 >> }

\* the input of the encoder tests (create.test.ts)
BaseInput ==
  [documentCode |-> T(<< "P" >>),
   issuingState |-> T(<< "U", "T", "O" >>),
   lastName |-> T(<< "E", "R", "I", "K", "S", "S", "O", "N" >>),
   firstName |-> T(<< "A", "N", "N", "A", " ", "M", "A", "R", "I", "A" >>),
   documentNumber |-> T(<< "L", "8", "9", "8", "9", "0", "2", "C", "3" >>),
   nationality |-> T(<< "U", "T", "O" >>),
   birthDate |-> [year |-> 1974, month |-> 8, day |-> 12],
   sex |-> FEMALE,
   expirationDate |-> [year |-> 2012, month |-> 4, day |-> 15],
   personalNumber |-> T(<< "Z", "E", "1", "8", "4", "2", "2", "6", "B" >>)]

SampleDocumentCodes ==
  { T(<< "P" >>), T(<< "P", "A" >>), T(<< "P", "C" >>), T(<< "p" >>), << >>,
    T(<< "P", "A", "S", "S" >>), T(<< "1" >>) }

SampleStates ==
  { T(<< "U", "T", "O" >>), T(<< "D" >>), T(<< "u", "s", "a" >>), << >>,
    T(<< "U", "T", "O", "P", "I", "A" >>), T(<< "U", "5", "A" >>) }

SampleLastNames ==
  { T(<< "E", "R", "I", "K", "S", "S", "O", "N" >>),
    T(<< "D", "E", " ", "L", "A", " ", "C", "R", "U", "Z" >>),
    T(<< "O", "N", "E", "I", "L", " " >>),
    << >>,
    T(<< "V", "E", "R", "Y", "L", "O", "N", "G", "L", "A", "S", "T", "N",
         "A", "M", "E", "T", "H", "A", "T", "E", "X", "C", "E", "E", "D",
         "S", "L", "I", "M", "I", "T", "O", "F", "T", "H", "E", "F", "I",
         "E", "L", "D" >>) }

SampleFirstNames ==
  { T(<< "A", "N", "N", "A", " ", "M", "A", "R", "I", "A" >>),
    T(<< "e", "r", "i", "k", "a" >>),
    << >>,
    T(<< "V", "E", "R", "Y", "L", "O", "N", "G", "F", "I", "R", "S", "T",
         "N", "A", "M", "E", "T", "H", "A", "T", "E", "X", "C", "E", "E",
         "D", "S", "L", "I", "M", "I", "T" >>) }

\* << 321, ... >> starts with the letter L with stroke, code unit 321
SampleDocumentNumbers ==
  { T(<< "L", "8", "9", "8", "9", "0", "2", "C", "3" >>),
    T(<< "C", "A", "1", "2", "3", "4", "5", "6" >>),
    T(<< "1", "2", "3", "4", "5", "6", "7", "8", "9", "0" >>),
    T(<< "A", "B", " ", "1", "2" >>),
    T(<< "a", "b", "-", "1", "2" >>),
    << >>,
    << 321, 79, 68, 90 >> }

SamplePersonalNumbers ==
  { Undefined, << >>,
    T(<< "Z", "E", "1", "8", "4", "2", "2", "6", "B" >>),
    T(<< "A", "B", "C", "1", "2", "3" >>),
    T(<< "1", "2", "3", "4", "5", "6", "7", "8", "9", "0", "1", "2", "3", "4", "5" >>) }

SampleYears == { 1974, 2000, 2012, 5, 0 - 5, 0 - 123 }
SampleMonths == { 0, 1, 8, 12, 13, 100 }
SampleDays == { 0, 1, 12, 31, 32 }
SampleDates == [year : SampleYears, month : SampleMonths, day : SampleDays]
SampleSexes == { MALE, FEMALE, UNSPECIFIED }

\* CreateMRZInput values: the test input with one property replaced
EncoderInputs ==
  { [BaseInput EXCEPT !.documentCode = v] : v \in SampleDocumentCodes }
    \cup { [BaseInput EXCEPT !.issuingState = v] : v \in SampleStates }
    \cup { [BaseInput EXCEPT !.lastName = v] : v \in SampleLastNames }
    \cup { [BaseInput EXCEPT !.firstName = v] : v \in SampleFirstNames }
    \cup { [BaseInput EXCEPT !.documentNumber = v] : v \in SampleDocumentNumbers }
    \cup { [BaseInput EXCEPT !.nationality = v] : v \in SampleStates }
    \cup { [BaseInput EXCEPT !.birthDate = v] : v \in SampleDates }
    \cup { [BaseInput EXCEPT !.sex = v] : v \in SampleSexes }
    \cup { [BaseInput EXCEPT !.expirationDate = v] : v \in SampleDates }
    \cup { [BaseInput EXCEPT !.personalNumber = v] : v \in SamplePersonalNumbers }

\* how far a scanned line is cut, shifted or lengthened
MaxResize == 3
\* how many candidates of one search are followed
MaxAttempts == 40

\* the characters an OCR engine may read for c, in either direction of the
\* table: the alternatives of c and the characters that list c
ConfusableTable ==
  [c \in 0..255 |->
     { a \in 0..255 :
         \E e \in 1..Len(AMBIGUOUS_CHARS) :
           LET from == AMBIGUOUS_CHARS[e][1]
               toList == AMBIGUOUS_CHARS[e][2]
           IN  \/ from = c /\ \E i \in 1..Len(toList) : toList[i] = a
               \/ from = a /\ \E i \in 1..Len(toList) : toList[i] = c }]

Confusable(c) == IF c \in 0..255 THEN ConfusableTable[c] ELSE { }

\* characters no MRZ holds: L with stroke (321), '-', 'l' and a misplaced '<'
JunkChars == { 321, 45, 108, 60 }

Resizes ==
  [kind : { "cut", "lead", "shift", "midcut" }, line : { 1, 2 }, n : 1..MaxResize,
   ch : { 60 }]
    \cup [kind : { "tail", "mid" }, line : { 1, 2 }, n : 1..MaxResize, ch : { 60, 88 }]

\* the line after the resize e
Resized(line, e) ==
  LET len == Len(line)
  IN  CASE e.kind = "cut" -> SubSeq(line, 1, len - e.n)
        [] e.kind = "lead" -> Repeat(60, e.n) \o line
        [] e.kind = "shift" -> Repeat(60, e.n) \o SubSeq(line, 1, len - e.n)
        [] e.kind = "midcut" ->
             SubSeq(line, 1, len - 2 - e.n) \o SubSeq(line, len - 1, len)
        [] e.kind = "tail" -> line \o Repeat(e.ch, e.n)
        [] e.kind = "mid" ->
             SubSeq(line, 1, len - 2) \o Repeat(e.ch, e.n) \o SubSeq(line, len - 1, len)

\* strings that are no record at all
ArbitraryLines ==
  { << >>, << 60 >>, Repeat(60, 44), Repeat(60, 46), T(<< "A" >>),
    T(<< "<", "<", "1", "0" >>), Repeat(88, 45) }

NoEdit == [kind |-> "none", line |-> 0, pos |-> 0, n |-> 0, ch |-> 0]

----------------------------------------------------------------------------
(* The calls                                                                *)

VARIABLES
  source,          \* where the caller's lines come from
  lines,           \* the caller's two lines
  pc,              \* "start", "ready", "searching" or "done"
  errorCorrection, \* options.errorCorrection of the parseMRZ call
  line1Padded,     \* parseWithErrorCorrection: its locals
  line2Padded,
  positions,
  generator,
  candidate,       \* [l1, l2] of the loop in progress
  yielded,         \* what the generator has yielded so far: [line1, line2, k]
  attemptNumber,
  maxCombinations, \* the ceiling on candidates: const maxCombos of the search
  decoderInput,    \* the lines parseTD3 was called with in the last step, or << >>
  result           \* what parseMRZ returned or threw

vars ==
  << charValues, ambiguousChars, lastIndex, calls, earlier,
     source, lines, pc, errorCorrection, line1Padded, line2Padded, positions,
     generator, candidate, yielded, attemptNumber, maxCombinations, decoderInput,
     result >>

searchVars ==
  << line1Padded, line2Padded, positions, generator, candidate, yielded,
     attemptNumber >>

\* the module-level tables and the record of the calls
tables == << charValues, ambiguousChars >>
history == << calls, earlier >>

\* TRAILING_ANGLES.lastIndex = 0 and ALL_ANGLES.lastIndex = 0 before every
\* replace, and replace with a global regex leaves lastIndex at 0
LastIndexReset == [TRAILING_ANGLES |-> 0, ALL_ANGLES |-> 0]

NoResult == [threw |-> FALSE, format |-> "none"]

NoSource == [kind |-> "none", input |-> << >>, base |-> << >>, edit |-> NoEdit]
NoCall ==
  [source |-> NoSource, lines |-> << << >>, << >> >>, errorCorrection |-> FALSE,
   result |-> NoResult]

\* the ceilings of the scaled-down search
MaxCap == 5
\* how many calls follow one another
MaxCalls == 2

\* the state before any call, but for the ceiling
InitCalls ==
  /\ charValues = InitialCharValues
  /\ ambiguousChars = AMBIGUOUS_CHARS
  /\ lastIndex = LastIndexReset
  /\ calls = 0
  /\ earlier = NoCall
  /\ decoderInput = << >>
  /\ source = NoSource
  /\ lines = << << >>, << >> >>
  /\ pc = "start"
  /\ errorCorrection = FALSE
  /\ line1Padded = << >>
  /\ line2Padded = << >>
  /\ positions = << >>
  /\ generator = NewGenerator
  /\ candidate = << >>
  /\ yielded = << >>
  /\ attemptNumber = 0
  /\ result = NoResult

\* const maxCombos = 2000000
Init == InitCalls /\ maxCombinations = maxCombos

\* the same program with the ceiling of 2,000,000 scaled down to a number of
\* candidates the search reaches
CapInit == InitCalls /\ maxCombinations \in 1..MaxCap

\* the caller obtains its lines
Obtain(kind, input, base, edit, ls) ==
  /\ pc = "start"
  /\ source' = [kind |-> kind, input |-> input, base |-> base, edit |-> edit]
  /\ lines' = ls
  /\ pc' = "ready"
  /\ UNCHANGED << errorCorrection, searchVars, maxCombinations, decoderInput, result >>
  /\ UNCHANGED << tables, lastIndex, history >>

\* const [line1, line2] = createMRZ(input)
CreateMRZ(input) == Obtain("created", input, << >>, NoEdit, createMRZ(input))

\* a printed record read as it is
ScanClean(rec) == Obtain("clean", << >>, rec, NoEdit, rec)

\* a printed record with one character read as a character the table pairs it
\* with
ScanSubstituted(rec, ln, p, a) ==
  /\ pc = "start"
  /\ a \in Confusable(rec[ln][p])
  /\ Obtain("substituted", << >>, rec,
            [kind |-> "substitute", line |-> ln, pos |-> p, n |-> 1, ch |-> a],
            [rec EXCEPT ![ln][p] = a])

\* a printed record with one character read as junk
ScanGarbled(rec, ln, p, a) ==
  /\ pc = "start"
  /\ a # rec[ln][p]
  /\ Obtain("garbled", << >>, rec,
            [kind |-> "garble", line |-> ln, pos |-> p, n |-> 1, ch |-> a],
            [rec EXCEPT ![ln][p] = a])

\* a printed record with one line cut, shifted or lengthened
ScanResized(rec, e) ==
  Obtain("resized", << >>, rec,
         [kind |-> e.kind, line |-> e.line, pos |-> 0, n |-> e.n, ch |-> e.ch],
         [rec EXCEPT ![e.line] = Resized(rec[e.line], e)])

\* two strings that are no record
ScanArbitrary(a, b) == Obtain("arbitrary", << >>, << >>, NoEdit, << a, b >>)

\* the metrics of a success with the attempt counted from 0
SuccessMetricsZeroBased(attempt, theoretical, corrected) ==
  [attemptNumber |-> attempt - 1,
   totalAttempts |-> attempt,
   totalCombinations |-> IF attempt = 1 THEN 1 ELSE theoretical,
   correctionApplied |-> corrected]

\* the metrics of a success with totalCombinations always the theoretical count
SuccessMetricsTheoretical(attempt, theoretical, corrected) ==
  [attemptNumber |-> attempt,
   totalAttempts |-> attempt,
   totalCombinations |-> theoretical,
   correctionApplied |-> corrected]

\* attemptNumber === 1 ? 1 : theoreticalMaxCombinations, and the metrics of a
\* success
SuccessMetrics(attempt, theoretical, corrected) ==
  [attemptNumber |-> attempt,
   totalAttempts |-> attempt,
   totalCombinations |-> IF attempt = 1 THEN 1 ELSE theoretical,
   correctionApplied |-> corrected]

\* the metrics of a failure with correctionApplied left false
FailureMetricsNotApplied(attempts, theoretical, paddingApplied) ==
  [attemptNumber |-> 0,
   totalAttempts |-> attempts,
   totalCombinations |-> theoretical,
   correctionApplied |-> FALSE]

\* the metrics of a failure with attemptNumber the number of candidates tried
FailureMetricsCountsAttempts(attempts, theoretical, paddingApplied) ==
  [attemptNumber |-> attempts,
   totalAttempts |-> attempts,
   totalCombinations |-> theoretical,
   correctionApplied |-> paddingApplied]

\* the metrics of a failure
FailureMetrics(attempts, theoretical, paddingApplied) ==
  [attemptNumber |-> 0,
   totalAttempts |-> attempts,
   totalCombinations |-> theoretical,
   correctionApplied |-> paddingApplied]

\* the comparison with the padded lines crossed over
paddingAppliedCrossed == lines[1] # line2Padded \/ lines[2] # line1Padded

\* line1 !== line1Padded || line2 !== line2Padded
paddingApplied == lines[1] # line1Padded \/ lines[2] # line2Padded

\* Math.min(product of (1 + alternatives.length), maxCombos).  The product is
\* a double in the source and cannot overflow; here it saturates at the
\* ceiling, which gives the same minimum and keeps the integers small.
RECURSIVE ProductOfAlternatives(_, _, _)
ProductOfAlternatives(ps, i, acc) ==
  IF i > Len(ps) THEN acc
  ELSE LET next == acc * (1 + Len(ps[i].alternatives))
       IN  ProductOfAlternatives(ps, i + 1,
                                 IF next < maxCombinations THEN next ELSE maxCombinations)

theoreticalMaxCombinations(ps) == ProductOfAlternatives(ps, 1, 1)

\* parseMRZ(input, options): without errorCorrection the result of parseTD3;
\* with it, parseWithErrorCorrection up to the head of its loop
ParseMRZ(opt) ==
  /\ pc = "ready"
  /\ errorCorrection' = opt
  /\ IF opt
     THEN /\ line1Padded' = padMRZLine(lines[1], TargetLength, FALSE)
          /\ line2Padded' = padMRZLine(lines[2], TargetLength, TRUE)
          /\ positions' = findAmbiguousPositions(line2Padded')
          /\ generator' = NewGenerator
          /\ candidate' = << >>
          /\ yielded' = << >>
          /\ attemptNumber' = 0
          /\ pc' = "searching"
          /\ UNCHANGED << result, decoderInput, lastIndex >>
     ELSE /\ result' = parseTD3(<< lines[1], lines[2] >>, FALSE)
          /\ decoderInput' = << lines[1], lines[2] >>
          /\ lastIndex' = LastIndexReset
          /\ pc' = "done"
          /\ UNCHANGED searchVars
  /\ UNCHANGED << source, lines, maxCombinations, tables, history >>

\* one turn of the loop over the generator: the generator yields a candidate,
\* which is counted, filtered and, if it passes, decoded
SearchTry ==
  /\ pc = "searching"
  /\ attemptNumber < MaxAttempts
  /\ LET next == generateCombinationsOrdered(generator, line1Padded, line2Padded,
                                             positions, maxCombinations)
         l1 == next.value[1]
         l2 == next.value[2]
         corrected == paddingApplied \/ l1 # line1Padded \/ l2 # line2Padded
         parsed == parseTD3(<< l1, l2 >>, corrected)
     IN  /\ ~next.done
         /\ generator' = next.gen
         /\ candidate' = << l1, l2 >>
         /\ yielded' = Append(yielded, next.value)
         /\ attemptNumber' = attemptNumber + 1
         /\ IF fastValidateTD3CheckDigits(l2)
            THEN /\ decoderInput' = << l1, l2 >>
                 /\ lastIndex' = LastIndexReset
            ELSE /\ decoderInput' = << >>
                 /\ UNCHANGED lastIndex
         /\ IF /\ fastValidateTD3CheckDigits(l2)
               /\ ~parsed.threw
               /\ parsed.valid
            THEN /\ result' =
                      [parsed EXCEPT !.correctionMetrics =
                         SuccessMetrics(attemptNumber', theoreticalMaxCombinations(positions),
                                        corrected)]
                 /\ pc' = "done"
            ELSE UNCHANGED << result, pc >>
  /\ UNCHANGED << source, lines, errorCorrection, line1Padded, line2Padded, positions,
                  maxCombinations, tables, history >>

\* the generator returns: the result of the padded lines with the metrics of a
\* failure; parseTD3 is called outside the try block here
SearchExhausted ==
  /\ pc = "searching"
  /\ attemptNumber < MaxAttempts
  /\ LET next == generateCombinationsOrdered(generator, line1Padded, line2Padded,
                                             positions, maxCombinations)
         failedResult == parseTD3(<< line1Padded, line2Padded >>, paddingApplied)
     IN  /\ next.done
         /\ generator' = next.gen
         /\ result' =
              IF failedResult.threw THEN failedResult
              ELSE [failedResult EXCEPT !.correctionMetrics =
                      FailureMetrics(attemptNumber, theoreticalMaxCombinations(positions),
                                     paddingApplied)]
         /\ decoderInput' = << line1Padded, line2Padded >>
         /\ lastIndex' = LastIndexReset
         /\ pc' = "done"
  /\ UNCHANGED << source, lines, errorCorrection, line1Padded, line2Padded, positions,
                  candidate, yielded, attemptNumber, maxCombinations, tables, history >>

\* the call that has returned, as the caller remembers it
ThisCall ==
  [source |-> source, lines |-> lines, errorCorrection |-> errorCorrection,
   result |-> result]

\* the locals of a call that has returned are gone
Returning ==
  /\ errorCorrection' = FALSE
  /\ line1Padded' = << >>
  /\ line2Padded' = << >>
  /\ positions' = << >>
  /\ generator' = NewGenerator
  /\ candidate' = << >>
  /\ yielded' = << >>
  /\ attemptNumber' = 0
  /\ decoderInput' = << >>
  /\ result' = NoResult
  /\ UNCHANGED << tables, lastIndex, maxCombinations >>

\* the caller passes result.lines of a record that correction returned valid
\* to parseMRZ once more
Resubmit ==
  /\ pc = "done" /\ errorCorrection
  /\ ~result.threw /\ result.format = "TD3" /\ result.valid
  /\ calls + 1 < MaxCalls
  /\ calls' = calls + 1
  /\ earlier' = ThisCall
  /\ source' = [kind |-> "resubmitted", input |-> << >>,
                base |-> << result.lines.line1, result.lines.line2 >>, edit |-> NoEdit]
  /\ lines' = << result.lines.line1, result.lines.line2 >>
  /\ pc' = "ready"
  /\ Returning

\* the call has returned and the caller goes on to its next call
NextCall ==
  /\ pc = "done"
  /\ calls + 1 < MaxCalls
  /\ calls' = calls + 1
  /\ earlier' = IF calls = 0 THEN ThisCall ELSE earlier
  /\ source' = NoSource
  /\ lines' = << << >>, << >> >>
  /\ pc' = "start"
  /\ Returning

Next ==
  \/ \E input \in EncoderInputs : CreateMRZ(input)
  \/ \E rec \in Corpus : ScanClean(rec)
  \/ \E rec \in Corpus, ln \in 1..2, p \in 1..44 :
       \E a \in Confusable(rec[ln][p]) : ScanSubstituted(rec, ln, p, a)
  \/ \E rec \in Corpus, ln \in 1..2, p \in 1..44, a \in JunkChars :
       ScanGarbled(rec, ln, p, a)
  \/ \E rec \in Corpus, e \in Resizes : ScanResized(rec, e)
  \/ \E a \in ArbitraryLines, b \in ArbitraryLines : ScanArbitrary(a, b)
  \/ \E opt \in BOOLEAN : ParseMRZ(opt)
  \/ SearchTry
  \/ SearchExhausted
  \/ Resubmit

Spec == Init /\ [][Next]_vars


\* Calls that follow one another in one process: encoder calls, strict
\* decodes and searches of the printed records and of one record read with a
\* confusable character.  A call runs to its end before the next one begins:
\* every function is synchronous and the generator is consumed inside
\* parseWithErrorCorrection.
SeqNext ==
  \/ CreateMRZ(BaseInput)
  \/ \E rec \in Corpus : ScanClean(rec)
  \/ \E p \in 1..44 :
       \E a \in Confusable(SmithLine2[p]) :
         ScanSubstituted(<< SmithLine1, SmithLine2 >>, 2, p, a)
  \/ \E opt \in BOOLEAN : ParseMRZ(opt)
  \/ SearchTry
  \/ SearchExhausted
  \/ NextCall

SeqSpec == Init /\ [][SeqNext]_vars

\* one turn of the loop of the search as pc and attemptNumber show it: another
\* candidate is counted or the call ends (SearchTry or SearchExhausted)
Advance ==
  /\ pc = "searching"
  /\ pc' \in { "searching", "done" }
  /\ attemptNumber' \in { attemptNumber, attemptNumber + 1 }

\* The search with the scaled-down ceiling.  The loop over the generator runs
\* synchronously to its end, so a search that is under way takes its next
\* turn.
CapSpec ==
  /\ CapInit /\ [][Next]_vars
  /\ WF_<< pc, attemptNumber >>(Advance)

----------------------------------------------------------------------------
(* Properties                                                               *)

\* the call that ended was a strict one / one with error correction
StrictDone == pc = "done" /\ ~errorCorrection
CorrectDone == pc = "done" /\ errorCorrection

\* r is a Decode Result (not a thrown error) whose valid flag is set
IsResult(r) == ~r.threw /\ r.format = "TD3"
IsValid(r) == IsResult(r) /\ r.valid

\* the pair of lines decodes with valid = true in strict mode
StrictValid(ls) == IsValid(parseTD3(<< ls[1], ls[2] >>, FALSE))

\* neither line begins with the filler character
NoLeadingFiller(ls) ==
  /\ Len(ls[1]) > 0 /\ ls[1][1] # 60
  /\ Len(ls[2]) > 0 /\ ls[2][1] # 60

\* the indices of the five check-digit records in details
CheckDigitRecords == { 6, 9, 12, 14, 15 }

\* the field names of the 15 detail records, in order
FieldOrder ==
  << "documentCode", "issuingState", "lastName", "firstName", "documentNumber",
     "documentNumberCheckDigit", "nationality", "birthDate", "birthDateCheckDigit",
     "sex", "expirationDate", "expirationDateCheckDigit", "personalNumber",
     "personalNumberCheckDigit", "compositeCheckDigit" >>

\* C1: round trip.  After createMRZ(input) and a strict parseMRZ of its lines,
\* valid = true, the text fields, the sex and the personal number (the empty
\* string when absent) equal the input values, and the two dates equal the
\* input dates rendered as YYMMDD.
C1_RoundTrip ==
  (source.kind = "created" /\ StrictDone) =>
    /\ IsValid(result)
    /\ result.fields.documentCode = source.input.documentCode
    /\ result.fields.issuingState = source.input.issuingState
    /\ result.fields.lastName = source.input.lastName
    /\ result.fields.firstName = source.input.firstName
    /\ result.fields.documentNumber = source.input.documentNumber
    /\ result.fields.nationality = source.input.nationality
    /\ result.fields.sex = source.input.sex
    /\ result.fields.personalNumber =
         (IF source.input.personalNumber = Undefined THEN << >>
          ELSE source.input.personalNumber)
    /\ result.fields.birthDate =
         formatDate(source.input.birthDate.year, source.input.birthDate.month,
                    source.input.birthDate.day)
    /\ result.fields.expirationDate =
         formatDate(source.input.expirationDate.year, source.input.expirationDate.month,
                    source.input.expirationDate.day)

\* C2: createMRZ returns exactly two lines, each exactly 44 characters long,
\* for every input record.
C2_TwoLinesOf44 ==
  source.kind = "created" =>
    Len(lines) = 2 /\ Len(lines[1]) = 44 /\ Len(lines[2]) = 44

\* C3: for every encoder input the five check digits of line 2 validate in
\* the field decoder and fastValidateTD3CheckDigits(line2) is true.
C3_CheckDigitsCorrect ==
  (source.kind = "created" /\ StrictDone) =>
    /\ IsResult(result)
    /\ \A i \in CheckDigitRecords : result.details[i].valid
    /\ fastValidateTD3CheckDigits(lines[2])

\* C4: strict mode raises the length error exactly when a line is not 44
\* characters long; the error names the first offending line (line 1 before
\* line 2) and its actual length, and no Decode Result is returned.
C4_StrictLengthError ==
  StrictDone =>
    LET bad1 == Len(lines[1]) # 44
        bad2 == Len(lines[2]) # 44
        n == IF bad1 THEN 1 ELSE 2
    IN  /\ result.threw <=> (bad1 \/ bad2)
        /\ result.threw =>
             /\ result.line = n
             /\ result.got = Len(lines[n])
             /\ result.message =
                  << "TD3 line ", n, " must be 44 characters, got ", Len(lines[n]) >>
             /\ "details" \notin DOMAIN result
             /\ "valid" \notin DOMAIN result

\* C4 witness: both lines have the wrong length and the error names line 1
C4_Witness ==
  /\ StrictDone /\ result.threw
  /\ Len(lines[1]) # 44 /\ Len(lines[2]) # 44
  /\ result.line = 1

\* C5: correction mode never fails on length.  The two normalized lines are
\* 44 characters long, every candidate handed to the decoder is 44/44, and
\* the call returns a Decode Result with lines of length 44 and
\* correctionMetrics present, without raising.
C5_CorrectionNeverFailsOnLength ==
  /\ (errorCorrection /\ pc \in { "searching", "done" }) =>
       /\ Len(line1Padded) = 44 /\ Len(line2Padded) = 44
       /\ candidate # << >> => Len(candidate[1]) = 44 /\ Len(candidate[2]) = 44
  /\ CorrectDone =>
       /\ IsResult(result)
       /\ Len(result.lines.line1) = 44 /\ Len(result.lines.line2) = 44
       /\ result.correctionMetrics # NoMetrics

\* C5 witness: an empty first line and an over-long second line, searched to
\* the end without success
C5_Witness ==
  /\ CorrectDone /\ IsResult(result) /\ ~result.valid
  /\ lines[1] = << >> /\ Len(lines[2]) > 44
  /\ Len(result.lines.line1) = 44 /\ Len(result.lines.line2) = 44

\* the metrics of a record that needed no correction
UntouchedMetrics ==
  [attemptNumber |-> 1, totalAttempts |-> 1, totalCombinations |-> 1,
   correctionApplied |-> FALSE]

\* C6 as stated: for every pair of 44-character lines that is valid in strict
\* mode, correction mode returns valid = true with the same two lines,
\* corrected = false and the metrics 1, 1, 1, false.
C6_ValidRecordUntouched ==
  (CorrectDone /\ StrictValid(lines)) =>
    /\ IsValid(result)
    /\ result.lines = [line1 |-> lines[1], line2 |-> lines[2]]
    /\ ~result.corrected
    /\ result.correctionMetrics = UntouchedMetrics

\* C6 as amended: the same for every strictly valid pair of which neither
\* line begins with '<' (normalization strips leading filler, so a valid
\* record that begins with '<' is shifted before it is searched).
C6_ValidRecordWithoutLeadingFillerUntouched ==
  (CorrectDone /\ StrictValid(lines) /\ NoLeadingFiller(lines)) =>
    /\ IsValid(result)
    /\ result.lines = [line1 |-> lines[1], line2 |-> lines[2]]
    /\ ~result.corrected
    /\ result.correctionMetrics = UntouchedMetrics

\* C6 witness: a valid record with ambiguous characters in line 2 (more than
\* one theoretical combination) returned at the first attempt
C6_Witness ==
  /\ CorrectDone /\ StrictValid(lines) /\ NoLeadingFiller(lines)
  /\ Len(positions) > 1
  /\ IsValid(result) /\ result.correctionMetrics = UntouchedMetrics

\* the caller's lines are a strictly valid record with exactly one character
\* replaced by a character the table pairs it with
SingleSubstitution == source.kind = "substituted" /\ StrictValid(source.base)

\* the character that was printed where the substitution was made
Printed == source.base[source.edit.line][source.edit.pos]

\* the character read is an entry of the table that lists c as an alternative
Lists(read, c) ==
  \E i \in 1..Len(AlternativesOf(read)) : AlternativesOf(read)[i] = c

Line2CutTo42 ==
  /\ source.kind = "resized" /\ source.edit.kind = "cut"
  /\ source.edit.line = 2 /\ source.edit.n = 2
  /\ StrictValid(source.base)

\* the character is '0' or '<', the two ways to write the check digit 0
WritesZero(c) == c = 48 \/ c = 60

C9_ValidIsConjunction ==
  (pc = "done" /\ IsResult(result)) =>
    /\ Len(result.details) = 15
    /\ result.valid <=> \A i \in 1..15 : result.details[i].valid

\* C9 witness: a record whose only invalid detail is the sex field, which no
\* check digit covers
C9_Witness ==
  /\ StrictDone /\ IsResult(result) /\ ~result.valid
  /\ { i \in 1..15 : ~result.details[i].valid } = { 10 }

\* the properties every detail record carries
DetailKeys == { "label", "field", "value", "valid", "ranges", "line", "start", "end" }

\* C10: for 44-character lines of arbitrary characters strict parsing never
\* raises; the result holds 15 detail records, one per field name in the
\* fixed order, each with label, field, value, valid, ranges, line, start and
\* end; a record is invalid exactly when it carries an error message.
C10_DataErrorsNeverThrown ==
  (StrictDone /\ Len(lines[1]) = 44 /\ Len(lines[2]) = 44) =>
    /\ IsResult(result)
    /\ Len(result.details) = 15
    /\ \A i \in 1..15 :
         /\ result.details[i].field = FieldOrder[i]
         /\ DetailKeys \subseteq DOMAIN result.details[i]
         /\ result.details[i].valid \in BOOLEAN
         /\ ~result.details[i].valid <=> result.details[i].error # NoError

\* C10 witness: a character outside the table (code unit 321) inside a
\* check-digit protected field, reported on the records and not thrown
C10_Witness ==
  /\ StrictDone /\ source.kind = "garbled" /\ source.edit.ch = 321
  /\ source.edit.line = 2 /\ source.edit.pos <= 9
  /\ IsResult(result) /\ ~result.valid
  /\ ~result.details[5].valid /\ ~result.details[6].valid /\ ~result.details[15].valid

\* the five check-digit records of the decoder's result for the pair are valid
DecoderCheckDigitsValid(l1, l2) ==
  LET r == parseTD3(<< l1, l2 >>, FALSE)
  IN  IsResult(r) /\ \A i \in CheckDigitRecords : r.details[i].valid

\* C11: the fast validator and the decoder agree.  For the caller's lines when
\* both are 44 characters long, and for every candidate the search hands to
\* the filter, fastValidateTD3CheckDigits(line2) is true exactly when the five
\* check-digit records of parseTD3 are valid; a second line that is not 44
\* characters long is rejected by the fast validator.
C11_FastValidatorAgreesWithDecoder ==
  /\ (pc # "start" /\ Len(lines[1]) = 44 /\ Len(lines[2]) = 44) =>
       (fastValidateTD3CheckDigits(lines[2])
          <=> DecoderCheckDigitsValid(lines[1], lines[2]))
  /\ (pc # "start" /\ Len(lines[2]) # 44) => ~fastValidateTD3CheckDigits(lines[2])
  /\ candidate # << >> =>
       (fastValidateTD3CheckDigits(candidate[2])
          <=> DecoderCheckDigitsValid(candidate[1], candidate[2]))

\* C11 witness: the document number check digit read as '-': the fast
\* validator rejects the line on the character, the decoder on the records of
\* that check digit and of the composite check digit, which covers it
C11_Witness ==
  /\ StrictDone /\ IsResult(result)
  /\ source.kind = "garbled" /\ source.edit.line = 2 /\ source.edit.pos = 10
  /\ source.edit.ch = 45
  /\ ~fastValidateTD3CheckDigits(lines[2])
  /\ { i \in CheckDigitRecords : ~result.details[i].valid } = { 6, 15 }

\* the checksum with every character outside '<', 0-9, A-Z counted as 0
RECURSIVE FallbackSum(_, _)
FallbackSum(s, i) ==
  IF i > Len(s) THEN 0
  ELSE (IF IsDigit(s[i]) THEN s[i] - 48 ELSE IF IsUpper(s[i]) THEN s[i] - 55 ELSE 0)
         * weights[((i - 1) % 3) + 1]
       + FallbackSum(s, i + 1)
FallbackChecksum(s) == FallbackSum(s, 1) % 10

\* C12: calculateCheckDigit returns a digit 0..9 equal to the weighted sum
\* mod 10 with the fallback value 0, for the padded document number the
\* encoder passes to it and for the document number and the composite input
\* the decoder passes to it.
C12_CheckDigitIsFallbackChecksum ==
  /\ source.kind = "created" =>
       LET field == padField(source.input.documentNumber, 9)
       IN  /\ calculateCheckDigit(field) \in 0..9
           /\ calculateCheckDigit(field) = FallbackChecksum(field)
  /\ (pc # "start" /\ Len(lines[1]) = 44 /\ Len(lines[2]) = 44) =>
       LET raw == Substring(lines[2], 0, 9)
           compositeInput == Substring(lines[2], 0, 10) \o Substring(lines[2], 13, 20)
                               \o Substring(lines[2], 21, 43)
       IN  /\ calculateCheckDigit(raw) \in 0..9
           /\ calculateCheckDigit(raw) = FallbackChecksum(raw)
           /\ calculateCheckDigit(compositeInput) \in 0..9
           /\ calculateCheckDigit(compositeInput) = FallbackChecksum(compositeInput)


\* the number of positions at which two lines of equal length differ
Distance(a, b) == Cardinality({ i \in 1..Len(a) : a[i] # b[i] })

\* the lines made from base by substituting exactly j of its ambiguous
\* characters, each by one of its alternatives
RECURSIVE SubstitutedLines(_, _)
SubstitutedLines(base, j) ==
  IF j = 0 THEN { base }
  ELSE UNION { { [lp[1] EXCEPT ![lp[2]] = AlternativesOf(base[lp[2]])[x]] :
                   x \in 1..Len(AlternativesOf(base[lp[2]])) } :
               lp \in { q \in SubstitutedLines(base, j - 1) \X (1..Len(base)) :
                          q[1][q[2]] = base[q[2]] } }

\* the candidate passes the filter and decodes valid
FullyValid(l1, l2) ==
  fastValidateTD3CheckDigits(l2) /\ IsValid(parseTD3(<< l1, l2 >>, FALSE))

\* the record returned valid has no valid rival with fewer substitutions
MinimalSubstitutions ==
  (CorrectDone /\ IsValid(result) /\ result.correctionMetrics.attemptNumber > 0) =>
    \A j \in 0..(Distance(result.lines.line2, line2Padded) - 1) :
      \A l \in SubstitutedLines(line2Padded, j) : ~FullyValid(line1Padded, l)

\* one more candidate is drawn from the generator
Drawn == pc = "searching" /\ attemptNumber' = attemptNumber + 1

\* C13: candidates are tried in non-decreasing edit distance.  The first
\* candidate is the normalized pair; every later candidate keeps line 1 and
\* differs from the normalized line 2 in at least as many positions as the
\* candidate before it, and in exactly the k the generator reports; the
\* record returned valid has the fewest substitutions of all valid candidates.
C13_NonDecreasingEditDistance ==
  /\ []MinimalSubstitutions
  /\ [][Drawn =>
          /\ candidate'[1] = line1Padded
          /\ attemptNumber = 0 => candidate'[2] = line2Padded
          /\ attemptNumber > 0 =>
               Distance(candidate'[2], line2Padded) >= Distance(candidate[2], line2Padded)
          /\ generator'.at = "candidate" =>
               Distance(candidate'[2], line2Padded) = generator'.k]_vars

\* C13 witness: a record returned valid with one substitution that was not the
\* first single substitution tried
C13_Witness ==
  /\ CorrectDone /\ IsValid(result)
  /\ Distance(result.lines.line2, line2Padded) = 1
  /\ result.correctionMetrics.attemptNumber > 2
  /\ generator.k = 1


\* the counters of the search stay within the ceiling, which is at most
\* 2,000,000
WithinCeiling ==
  /\ maxCombinations <= maxCombos
  /\ attemptNumber <= maxCombinations
  /\ generator.totalYielded <= maxCombinations
  /\ (CorrectDone /\ IsResult(result)) =>
       result.correctionMetrics.totalAttempts <= maxCombinations

\* C14: the search terminates and never tries more candidates than the
\* ceiling.  The counters stay within the ceiling (the zero-edit candidate
\* counted), a search that has tried as many candidates as the ceiling ends
\* at its next step without another candidate, whatever level it is in, and
\* every search that starts ends.
C14_SearchTerminatesWithinCeiling ==
  /\ []WithinCeiling
  /\ [][(pc = "searching" /\ attemptNumber = maxCombinations) =>
          (pc' = "done" /\ candidate' = candidate)]_vars
  /\ (pc = "searching") ~> (pc = "done")

\* C14 witness: a search cut off by the ceiling in the middle of the level of
\* two substitutions, with candidates left untried
C14_Witness ==
  /\ CorrectDone /\ IsResult(result) /\ ~result.valid
  /\ result.correctionMetrics.totalAttempts = maxCombinations
  /\ generator.at = "returned" /\ generator.k = 2
  /\ generator.ci < Len(generator.combos)


\* the product over the characters of the line of 1 + the number of
\* alternatives the table gives the character, cut off at the ceiling
RECURSIVE CombinationCount(_, _)
CombinationCount(line, i) ==
  IF i > Len(line) THEN 1
  ELSE LET rest == CombinationCount(line, i + 1)
           n == (1 + Len(AlternativesOf(line[i]))) * rest
       IN  IF n < maxCombinations THEN n ELSE maxCombinations

\* the caller's lines were changed by normalization
Normalized == lines[1] # line1Padded \/ lines[2] # line2Padded

SearchFailed == CorrectDone /\ IsResult(result) /\ ~result.valid

\* C16: on failure the search returns the decoder's result for the normalized
\* pair, with its 15 detail records, corrected = correctionApplied =
\* (normalization changed a line), attemptNumber = 0 and totalAttempts = the
\* number of candidates tried = totalCombinations = the product of (1 + number
\* of alternatives) cut off at the ceiling.
C16_FailureMetrics ==
  SearchFailed =>
    LET m == result.correctionMetrics
        decoded == parseTD3(<< line1Padded, line2Padded >>, Normalized)
    IN  /\ result.lines = [line1 |-> line1Padded, line2 |-> line2Padded]
        /\ result.details = decoded.details /\ Len(result.details) = 15
        /\ result.fields = decoded.fields
        /\ result.corrected = Normalized
        /\ m.correctionApplied = Normalized
        /\ m.attemptNumber = 0
        /\ m.totalAttempts = attemptNumber
        /\ m.totalCombinations = CombinationCount(line2Padded, 1)
        /\ m.totalAttempts = m.totalCombinations

\* C16 witness: a failure on normalized lines after every combination was
\* tried, fewer than the ceiling
C16_Witness ==
  /\ SearchFailed /\ Normalized
  /\ result.correctionMetrics.correctionApplied
  /\ result.correctionMetrics.attemptNumber = 0
  /\ result.correctionMetrics.totalAttempts > 1
  /\ result.correctionMetrics.totalAttempts < maxCombinations


\* a two-character part of a date is '<<' or two digits with a value in
\* lo..hi
PartSpecified(part, lo, hi) ==
  \/ part = << 60, 60 >>
  \/ /\ IsDigit(part[1]) /\ IsDigit(part[2])
     /\ (part[1] - 48) * 10 + (part[2] - 48) \in lo..hi

\* C17: a 6-character date field over digits and '<' is valid exactly when
\* its month part is '<<' or two digits in 1..12 and its day part is '<<' or
\* two digits in 1..31; checked on the birth date and the expiration date of
\* every strict result.
C17_DateFieldValidation ==
  (StrictDone /\ IsResult(result)) =>
    \A d \in { << 8, 13 >>, << 11, 21 >> } :
      LET date == Substring(lines[2], d[2], d[2] + 6)
      IN  DATE_PATTERN(date) =>
            (result.details[d[1]].valid
               <=> /\ PartSpecified(Substring(date, 2, 4), 1, 12)
                   /\ PartSpecified(Substring(date, 4, 6), 1, 31))

\* the document code of line 1 with its filler removed
CleanedCode == RemoveAngles(Substring(lines[1], 0, 2))

\* C18: a malformed document code (empty after stripping filler, or holding
\* a non-letter) makes the document-code record an error, and a well-formed
\* code outside P, PA, PO, PT does not: its record is valid, without an error
\* message, with the code as its value.
C18_UnknownCodeIsNoError ==
  (StrictDone /\ IsResult(result)) =>
    /\ (Len(CleanedCode) = 0 \/ ~ALPHA_ONLY(CleanedCode)) =>
         (~result.details[1].valid /\ result.details[1].error # NoError)
    /\ (Len(CleanedCode) > 0 /\ ALPHA_ONLY(CleanedCode) /\ CleanedCode \notin validCodes) =>
         /\ result.details[1].valid
         /\ result.details[1].error = NoError
         /\ result.fields.documentCode = CleanedCode


\* the 39 characters of the name field of line 1
NameField == SubSeq(lines[1], 6, 44)

\* the 1-based indices at which a '<<' begins in the name field
Separators == { i \in 1..38 : NameField[i] = 60 /\ NameField[i + 1] = 60 }

\* the index of the first '<<'
FirstSeparator == CHOOSE i \in Separators : \A j \in Separators : i <= j

\* the text with its trailing '<' removed and every other '<' a space
NameText(s) ==
  LET n == IF \E i \in 1..Len(s) : s[i] # 60
           THEN CHOOSE i \in 1..Len(s) : s[i] # 60 /\ \A j \in (i + 1)..Len(s) : s[j] = 60
           ELSE 0
  IN  [i \in 1..n |-> IF s[i] = 60 THEN 32 ELSE s[i]]

\* C19: name splitting.  The last name is the text of the name field before
\* its first '<<' and the first name the text after it without trailing
\* filler, every other '<' a space; without a '<<' the whole field without
\* trailing filler is the last name and the first name is empty.  Both name
\* records are always valid and carry no error.
C19_NameSplitting ==
  (StrictDone /\ IsResult(result)) =>
    /\ result.details[3].valid /\ result.details[4].valid
    /\ result.details[3].error = NoError /\ result.details[4].error = NoError
    /\ result.fields.lastName = result.details[3].value
    /\ result.fields.firstName = result.details[4].value
    /\ IF Separators = { }
       THEN /\ result.fields.lastName = NameText(NameField)
            /\ result.fields.firstName = << >>
       ELSE /\ result.fields.lastName = NameText(SubSeq(NameField, 1, FirstSeparator - 1))
            /\ result.fields.firstName = NameText(SubSeq(NameField, FirstSeparator + 2, 39))

\* C19 witness: a third '<' read right before the separator, which leaves a
\* '<' at the head of the first name, decoded as a space
C19_Witness ==
  /\ StrictDone /\ IsResult(result)
  /\ source.kind = "garbled" /\ source.edit.line = 1 /\ source.edit.ch = 60
  /\ Separators # { }
  /\ Len(result.fields.firstName) > 1 /\ result.fields.firstName[1] = 32
  /\ Len(result.fields.lastName) > 0


\* the text upper-cased with its spaces written '<', cut or filled with '<' to
\* n characters
FixedWidth(text, n) ==
  [i \in 1..n |->
     IF i > Len(text) THEN 60
     ELSE IF text[i] = 32 THEN 60
     ELSE IF IsLower(text[i]) THEN text[i] - 32
     ELSE text[i]]

\* the two decimal digits of a number in 0..99
TwoDigits(n) == << 48 + (n \div 10), 48 + (n % 10) >>

\* YYMMDD: the year mod 100, the month and the day, two digits each
YYMMDD(date) ==
  TwoDigits(date.year % 100)
    \o (IF date.month \in 0..99 THEN TwoDigits(date.month) ELSE NumberToString(date.month))
    \o (IF date.day \in 0..99 THEN TwoDigits(date.day) ELSE NumberToString(date.day))

\* C20: the field layout of createMRZ.  In the two lines returned every text
\* field sits at its fixed offset and is the input upper-cased, spaces
\* written '<', filled or cut to the field width; the name field is
\* LASTNAME<<FIRSTNAME treated the same way; each date is YYMMDD with the
\* year mod 100 and two digits for month and day; the sex is M, F or '<'.
C20_EncoderFieldLayout ==
  source.kind = "created" =>
    LET in == source.input
        pn == IF in.personalNumber = Undefined THEN << >> ELSE in.personalNumber
    IN  /\ Substring(lines[1], 0, 2) = FixedWidth(in.documentCode, 2)
        /\ Substring(lines[1], 2, 5) = FixedWidth(in.issuingState, 3)
        /\ Substring(lines[1], 5, 44)
             = FixedWidth(in.lastName \o << 60, 60 >> \o in.firstName, 39)
        /\ Substring(lines[2], 0, 9) = FixedWidth(in.documentNumber, 9)
        /\ Substring(lines[2], 10, 13) = FixedWidth(in.nationality, 3)
        /\ Substring(lines[2], 13, 19) = YYMMDD(in.birthDate)
        /\ Substring(lines[2], 20, 21)
             = (IF in.sex = MALE THEN << 77 >> ELSE IF in.sex = FEMALE THEN << 70 >>
                ELSE << 60 >>)
        /\ Substring(lines[2], 21, 27) = YYMMDD(in.expirationDate)
        /\ Substring(lines[2], 28, 42) = FixedWidth(pn, 14)


\* the second line of the call in progress without its leading filler, when it
\* is longer than the target and its last two characters are not both filler
StrippedLine2 == StripLeading(lines[2])
Normalizing == pc \in { "searching", "done" } /\ errorCorrection
LongLine2WithTail ==
  /\ Normalizing
  /\ Len(StrippedLine2) > TargetLength
  /\ \E i \in 0..1 : StrippedLine2[Len(StrippedLine2) - i] # 60
Tail2 == SubSeq(StrippedLine2, Len(StrippedLine2) - 1, Len(StrippedLine2))
BeforeTail2 == SubSeq(StrippedLine2, 1, Len(StrippedLine2) - 2)
Excess == Len(StrippedLine2) - TargetLength
EnoughFillerBeforeTail == TrailingAngles(BeforeTail2) >= Excess

\* C22 as stated: line-2 normalization with a checksum tail.  A stripped
\* second line longer than 44 characters whose last two characters are not
\* both filler loses only filler immediately before the tail; with fewer
\* filler characters there than needed, the result is the first 44
\* characters of the stripped line.
C22_FallbackIsFlatTruncation ==
  LongLine2WithTail =>
    IF EnoughFillerBeforeTail
    THEN line2Padded = SubSeq(BeforeTail2, 1, Len(BeforeTail2) - Excess) \o Tail2
    ELSE line2Padded = SubSeq(StrippedLine2, 1, TargetLength)

\* C22 amended: as above, but with fewer filler characters than needed before
\* the tail the result is the first 42 characters of the stripped line
\* followed by its two-character tail.
C22_FallbackKeepsTail ==
  LongLine2WithTail =>
    IF EnoughFillerBeforeTail
    THEN line2Padded = SubSeq(BeforeTail2, 1, Len(BeforeTail2) - Excess) \o Tail2
    ELSE line2Padded = SubSeq(StrippedLine2, 1, TargetLength - 2) \o Tail2

\* a long second line with too little filler before its tail was normalized
C22_Witness ==
  /\ LongLine2WithTail
  /\ ~EnoughFillerBeforeTail
  /\ Len(line2Padded) = TargetLength
  /\ line2Padded # SubSeq(StrippedLine2, 1, TargetLength)


\* a is listed in the table as an alternative for c
ListedAlternative(c, a) ==
  \E e \in 1..Len(AMBIGUOUS_CHARS) :
    /\ AMBIGUOUS_CHARS[e][1] = c
    /\ \E i \in 1..Len(AMBIGUOUS_CHARS[e][2]) : AMBIGUOUS_CHARS[e][2][i] = a

\* c is a character the table lists alternatives for
IsAmbiguous(c) == \E e \in 1..Len(AMBIGUOUS_CHARS) : AMBIGUOUS_CHARS[e][1] = c

\* the search has drawn a candidate
CandidateDrawn == Normalizing /\ candidate # << >>

\* C23: substitution touches line 2 only.  The ambiguous positions are those
\* of the normalized second line; every candidate has line 1 equal to the
\* normalized first line; its line 2 differs from the normalized line 2 only
\* at ambiguous positions and only by a character listed as an alternative
\* for the original character; the line 1 of a correction-mode result is the
\* normalized first line.
C23_SubstitutionTouchesLine2Only ==
  /\ Normalizing =>
       /\ \A i \in 1..Len(positions) :
            /\ positions[i].pos + 1 \in 1..Len(line2Padded)
            /\ positions[i].original = line2Padded[positions[i].pos + 1]
            /\ IsAmbiguous(positions[i].original)
       /\ \A p \in 1..Len(line2Padded) :
            IsAmbiguous(line2Padded[p]) =>
              \E i \in 1..Len(positions) : positions[i].pos + 1 = p
  /\ CandidateDrawn =>
       /\ candidate[1] = line1Padded
       /\ Len(candidate[2]) = Len(line2Padded)
       /\ \A p \in 1..Len(line2Padded) :
            \/ candidate[2][p] = line2Padded[p]
            \/ /\ \E i \in 1..Len(positions) : positions[i].pos + 1 = p
               /\ ListedAlternative(line2Padded[p], candidate[2][p])
  /\ (CorrectDone /\ IsResult(result)) => result.lines.line1 = line1Padded

\* a candidate with two characters substituted has been drawn and the search
\* has returned a result with a substituted line 2
C23_Witness ==
  /\ CorrectDone /\ IsResult(result)
  /\ Cardinality({ p \in 1..Len(line2Padded) : candidate[2][p] # line2Padded[p] }) >= 2
  /\ lines[1] # line1Padded


\* the arrays the suspended generator holds: combos, every k-combination of
\* the level it is in, and altCombos, every choice of alternatives for the
\* combination it is at
HeldCombos == Len(generator.combos)
HeldAltCombos == Len(generator.altCombos)

\* C24: candidate generation is lazy.  Candidates are drawn one at a time (one
\* for each turn of the loop), and during the search the generator holds no
\* collection whose size grows with the number of combinations: of the
\* k-combinations of a level and of the choices of alternatives it holds the
\* one it is working on.
C24_NoMaterializedCollection ==
  /\ [][attemptNumber' \in { 0, attemptNumber, attemptNumber + 1 }]_vars
  /\ [](Normalizing => (HeldCombos <= 1 /\ HeldAltCombos <= 1))


\* the step that just ended was a turn of the loop over the candidates (not
\* the decode of the normalized pair that follows a failed search)
InLoop == CandidateDrawn /\ generator.at # "returned"

\* C25: the fast validator is a sound pre-filter.  It accepts every candidate
\* that decodes with valid = true in strict mode; no candidate that decodes
\* valid is passed over, so the search returns valid = true exactly when a
\* drawn candidate decodes valid, and then returns that candidate; in a turn
\* of the loop the decoder is called on the candidate only, and only when the
\* fast validator has accepted it.
C25_FastValidatorSoundPreFilter ==
  /\ (CandidateDrawn /\ StrictValid(candidate)) =>
       fastValidateTD3CheckDigits(candidate[2])
  /\ (CandidateDrawn /\ pc = "searching") => ~StrictValid(candidate)
  /\ (CorrectDone /\ IsResult(result)) =>
       /\ result.valid <=> StrictValid(candidate)
       /\ result.valid =>
            result.lines = [line1 |-> candidate[1], line2 |-> candidate[2]]
  /\ (InLoop /\ decoderInput # << >>) =>
       /\ decoderInput = candidate
       /\ fastValidateTD3CheckDigits(candidate[2])

\* a search that passed over candidates the fast validator rejected and ended
\* with one that it accepted and the decoder found valid
C25_Witness ==
  /\ CorrectDone /\ IsValid(result)
  /\ attemptNumber >= 2
  /\ decoderInput = candidate
  /\ ~fastValidateTD3CheckDigits(line2Padded)


\* P, the product of (1 + number of alternatives) over the ambiguous
\* positions; one more than the ceiling stands for every greater product
RECURSIVE AssignmentCount(_, _)
AssignmentCount(ps, i) ==
  IF i > Len(ps) THEN 1
  ELSE LET n == (1 + Len(ps[i].alternatives)) * AssignmentCount(ps, i + 1)
       IN  IF n > maxCombos THEN maxCombos + 1 ELSE n

\* every line that keeps or replaces by a listed alternative each ambiguous
\* character of the normalized line 2
AllAssignments ==
  UNION { SubstitutedLines(line2Padded, j) : j \in 0..Len(positions) }

\* the generator has returned: the search drew every candidate it yields
Exhausted == CorrectDone /\ generator.at = "returned"

\* C26: exhaustive, duplicate-free enumeration.  With P at most 2,000,000 the
\* candidates yielded are pairwise distinct (none repeats an earlier one),
\* each is an assignment of original-or-alternative to the ambiguous
\* positions at exactly as many positions as its edit distance k says, and a
\* generator that has returned has yielded exactly P candidates, every
\* assignment among them.
C26_ExhaustiveDuplicateFree ==
  (Normalizing /\ AssignmentCount(positions, 1) <= maxCombos) =>
    /\ \A i \in 1..Len(yielded) :
         /\ \A j \in 1..(i - 1) : yielded[j][2] # yielded[i][2]
         /\ yielded[i][1] = line1Padded
         /\ Len(yielded[i][2]) = Len(line2Padded)
         /\ Distance(yielded[i][2], line2Padded) = yielded[i][3]
         /\ \A p \in 1..Len(line2Padded) :
              \/ yielded[i][2][p] = line2Padded[p]
              \/ ListedAlternative(line2Padded[p], yielded[i][2][p])
    /\ Exhausted =>
         /\ Len(yielded) = AssignmentCount(positions, 1)
         /\ { yielded[i][2] : i \in 1..Len(yielded) } = AllAssignments

\* a generator that returned after all its P >= 12 candidates, one of three
\* substitutions among them
C26_Witness ==
  /\ Exhausted
  /\ maxCombinations = maxCombos
  /\ Len(yielded) = AssignmentCount(positions, 1)
  /\ Len(yielded) >= 12
  /\ \E i \in 1..Len(yielded) : yielded[i][3] >= 3


\* C27: metric consistency in every correction-mode result.  attemptNumber is
\* 0 exactly when valid = false; attemptNumber = totalAttempts >= 1 exactly
\* when valid = true; attemptNumber <= totalCombinations; corrected equals
\* correctionMetrics.correctionApplied.
C27_MetricConsistency ==
  (CorrectDone /\ IsResult(result)) =>
    LET m == result.correctionMetrics
    IN  /\ (m.attemptNumber = 0) <=> ~result.valid
        /\ (m.attemptNumber = m.totalAttempts /\ m.totalAttempts >= 1) <=> result.valid
        /\ m.attemptNumber <= m.totalCombinations
        /\ result.corrected = m.correctionApplied

\* a failed search of a normalized input whose metrics say so, after more
\* than one candidate
C27_Witness ==
  /\ CorrectDone /\ IsResult(result) /\ ~result.valid
  /\ result.correctionMetrics.attemptNumber = 0
  /\ result.correctionMetrics.totalAttempts > 1
  /\ result.corrected /\ result.correctionMetrics.correctionApplied


\* the call in progress decodes the lines of a record correction returned
Resubmitted == source.kind = "resubmitted"

\* C28: correction is idempotent on its own output.  The lines (L1, L2) of a
\* record that correction mode returned valid decode valid in strict mode
\* with the same field values, and correction mode on (L1, L2) returns the
\* same lines with valid = true, corrected = false, attemptNumber = 1 and
\* totalCombinations = 1: normalization leaves both lines as they are.
C28_CorrectionIdempotent ==
  /\ Resubmitted =>
       /\ lines = << earlier.result.lines.line1, earlier.result.lines.line2 >>
       /\ earlier.errorCorrection /\ earlier.result.valid
  /\ (Resubmitted /\ StrictDone) =>
       /\ IsValid(result)
       /\ result.fields = earlier.result.fields
       /\ result.documentNumber = earlier.result.documentNumber
  /\ (Resubmitted /\ Normalizing) =>
       /\ line1Padded = lines[1]
       /\ line2Padded = lines[2]
  /\ (Resubmitted /\ CorrectDone) =>
       /\ IsValid(result)
       /\ result.lines = earlier.result.lines
       /\ result.fields = earlier.result.fields
       /\ ~result.corrected
       /\ result.correctionMetrics.attemptNumber = 1
       /\ result.correctionMetrics.totalCombinations = 1

\* correction decoded once more the lines it had returned after a
\* substitution in line 2
C28_Witness ==
  /\ Resubmitted /\ CorrectDone
  /\ earlier.result.corrected
  /\ earlier.lines[2] # lines[2]
  /\ earlier.result.correctionMetrics.attemptNumber > 1


\* A-Z, 0-9 and '<'
MRZAlphabet(c) == IsUpper(c) \/ IsDigit(c) \/ c = 60

ConfusionPairs ==
  UNION { { << AMBIGUOUS_CHARS[e][1], AMBIGUOUS_CHARS[e][2][i] >> :
              i \in 1..Len(AMBIGUOUS_CHARS[e][2]) } :
          e \in 1..Len(AMBIGUOUS_CHARS) }

\* (value(c) - value(a)) * w is not divisible by 10 for any of the weights
Detectable(pr) ==
  \A j \in 1..Len(weights) :
    ((CHAR_VALUES(pr[1]) - CHAR_VALUES(pr[2])) * weights[j]) % 10 # 0

\* the fields of line 2 that a check digit of their own protects, as 1-based
\* ranges: document number, birth date, expiration date, personal number
ProtectedFields == { << 1, 9 >>, << 14, 19 >>, << 22, 27 >>, << 29, 42 >> }

\* the call reads a record in which one character of a protected field of
\* line 2 is replaced by one the table lists for it
ReplacedInField(f) ==
  /\ source.kind = "substituted"
  /\ source.edit.line = 2
  /\ source.edit.pos \in f[1]..f[2]
  /\ ListedAlternative(source.base[2][source.edit.pos], source.edit.ch)

ReplacedPair == << source.base[2][source.edit.pos], source.edit.ch >>

\* the replacement changes the check digit computed for the field, and the
\* record as read does not pass all check digits
CheckDigitChanged(f) ==
  /\ calculateCheckDigit(SubSeq(lines[2], f[1], f[2]))
       # calculateCheckDigit(SubSeq(source.base[2], f[1], f[2]))
  /\ ~fastValidateTD3CheckDigits(lines[2])

GTo6 == << Ord("G"), Ord("6") >>

\* C30 as stated: every confusion pair of the table is checksum-detectable.
\* For each entry c -> a and each weight, (value(c) - value(a)) * w is not
\* divisible by 10; replacing one character inside a protected field by one
\* of its counterparts changes the field's computed check digit, and the
\* record cannot pass all check digits unrepaired.
C30_EveryPairDetectable ==
  /\ \A pr \in ConfusionPairs : Detectable(pr)
  /\ \A f \in ProtectedFields : ReplacedInField(f) => CheckDigitChanged(f)

\* C30 amended: every pair but G -> 6 is detectable.  The values of G and 6
\* differ by 10, so G read as 6 in a protected field leaves every check digit
\* as it was and the record passes the check digits unrepaired.
C30_EveryPairButGTo6Detectable ==
  /\ \A pr \in ConfusionPairs \ { GTo6 } : Detectable(pr)
  /\ GTo6 \in ConfusionPairs /\ ~Detectable(GTo6)
  /\ \A f \in ProtectedFields :
       ReplacedInField(f) =>
         IF ReplacedPair = GTo6
         THEN /\ calculateCheckDigit(SubSeq(lines[2], f[1], f[2]))
                   = calculateCheckDigit(SubSeq(source.base[2], f[1], f[2]))
              /\ fastValidateTD3CheckDigits(lines[2])
         ELSE CheckDigitChanged(f)

\* a record read with one character of a protected field replaced by its
\* counterpart of a detectable pair: the check digit of the field changed
C30_Witness ==
  /\ pc = "done"
  /\ \E f \in ProtectedFields :
       /\ ReplacedInField(f)
       /\ ReplacedPair # GTo6
       /\ CheckDigitChanged(f)


\* the call that has ended was made with the arguments of the earlier call
SameArguments ==
  /\ pc = "done" /\ calls > 0
  /\ earlier.lines = lines
  /\ earlier.errorCorrection = errorCorrection

\* the encoder was called with the input of the earlier encoder call
SameEncoderInput ==
  /\ pc # "start" /\ calls > 0
  /\ source.kind = "created" /\ earlier.source.kind = "created"
  /\ earlier.source.input = source.input

=============================================================================
